---------------------------- MODULE Spec2Model ----------------------------
(***************************************************************************)
(* Controller of the centralized routing control plane (controller.py):    *)
(* the shortest-path engine, the routing cache, the effective-topology     *)
(* rule, the bootstrap and the steady-state handlers.                      *)
(*                                                                         *)
(* Python dictionaries are functions; a dictionary's missing key is a      *)
(* value outside the function's DOMAIN.  Lists are sequences.              *)
(***************************************************************************)
EXTENDS Integers, Sequences, FiniteSets, TLC

(***************************************************************************)
(* Bounds of the model.                                                    *)
(***************************************************************************)
\* switches of the protocol runs (line 1 of the config file)
N == 3
\* switches of the topologies the engine is applied to
EngineN == 4
\* edge lines of a config file given to the engine
MaxEdges == 4
\* edge costs are 1..MaxCost
MaxCost == 3
\* switches the timeout detector has marked dead when the engine is applied
MaxDead == 1

(***************************************************************************)
(* Program constants (common.py).                                          *)
(***************************************************************************)
UPDATE_DELAY == 2
TIMEOUT == 3 * UPDATE_DELAY
UNREACHABLE_DISTANCE == 9999
UNREACHABLE_HOP == -1
LOCALHOST == "127.0.0.1"

\* float('inf') of _dijkstra: a value no sum of costs equals; every comparison
\* with it goes through Improves and IsInf
Inf == -1
\* None, the predecessor of a node no relaxation has reached
None == -2

Ids(k) == 0 .. (k - 1)

\* the costs of the edge lines
Costs == 1 .. MaxCost

Range(s) == {s[i] : i \in 1 .. Len(s)}

(***************************************************************************)
(* The config file reader of bootstrap: topo[i] = [] for every id, then    *)
(* every edge line s1 s2 cost is appended to both endpoints' lists.        *)
(***************************************************************************)
RECURSIVE ParseEdges(_, _, _)
ParseEdges(t, lines, i) ==
    IF i > Len(lines) THEN t
    ELSE LET s1 == lines[i][1]
             s2 == lines[i][2]
             dist == lines[i][3]
             t1 == [t EXCEPT ![s1] = Append(@, <<s2, dist>>)]
             t2 == [t1 EXCEPT ![s2] = Append(@, <<s1, dist>>)]
         IN  ParseEdges(t2, lines, i + 1)

ParseConfig(k, lines) == ParseEdges([i \in Ids(k) |-> <<>>], lines, 1)

(***************************************************************************)
(* dict.get                                                                *)
(***************************************************************************)
TopoGet(t, u) == IF u \in DOMAIN t THEN t[u] ELSE <<>>

AliveGet(alive, s, default) == IF s \in DOMAIN alive THEN alive[s] ELSE default

NbrGet(nbrs, s, nid) ==
    IF s \in DOMAIN nbrs /\ nid \in DOMAIN nbrs[s] THEN nbrs[s][nid] ELSE TRUE

(***************************************************************************)
(* build_topology: the effective topology.                                 *)
(***************************************************************************)
BothSeeOnlyOneSide(nbrs, sid, nid) == NbrGet(nbrs, sid, nid)

BothSee(nbrs, sid, nid) == NbrGet(nbrs, sid, nid) /\ NbrGet(nbrs, nid, sid)

\* an edge is kept whatever the far end is marked
EndAliveAlways(alive, nid) == TRUE

\* switch_alive.get(nid, False), for the far end of an edge
EndAlive(alive, nid) == AliveGet(alive, nid, FALSE)

build_topology(topo_template, alive, nbrs) ==
    [sid \in {s \in DOMAIN topo_template : AliveGet(alive, s, FALSE)} |->
        LET Keep(e) == EndAlive(alive, e[1]) /\ BothSee(nbrs, sid, e[1])
        IN  SelectSeq(topo_template[sid], Keep)]

(***************************************************************************)
(* heapq over (distance, node) tuples: heappop returns the least tuple.    *)
(***************************************************************************)
\* a max-heap
HeapLessMax(a, b) == a[1] > b[1] \/ (a[1] = b[1] /\ a[2] > b[2])

HeapLess(a, b) == a[1] < b[1] \/ (a[1] = b[1] /\ a[2] < b[2])

HeapMin(pq) == CHOOSE x \in Range(pq) : \A y \in Range(pq) : ~HeapLess(y, x)

\* a queue keyed by the distance alone: of the least distance, the first pushed
HeapPopFifo(pq) ==
    LET i == CHOOSE k \in 1 .. Len(pq) :
                /\ \A j \in 1 .. Len(pq) : pq[k][1] <= pq[j][1]
                /\ \A j \in 1 .. (k - 1) : pq[j][1] > pq[k][1]
    IN  [top |-> pq[i], rest |-> SubSeq(pq, 1, i - 1) \o SubSeq(pq, i + 1, Len(pq))]

HeapPop(pq) ==
    LET m == HeapMin(pq)
        i == CHOOSE k \in 1 .. Len(pq) : pq[k] = m /\ \A j \in 1 .. (k - 1) : pq[j] # m
    IN  [top |-> m, rest |-> SubSeq(pq, 1, i - 1) \o SubSeq(pq, i + 1, Len(pq))]

IsInf(d) == d = Inf

\* alt <= dist[v]
ImprovesOrTies(alt, cur) == IsInf(cur) \/ alt <= cur

\* alt < dist[v]
Improves(alt, cur) == IsInf(cur) \/ alt < cur

(***************************************************************************)
(* _dijkstra: the relaxation loop, then the next-hop table.                *)
(***************************************************************************)
RECURSIVE RelaxEdges(_, _, _, _, _)
RelaxEdges(st, d, u, edges, i) ==
    IF i > Len(edges) THEN st
    ELSE LET v == edges[i][1]
             cost == edges[i][2]
             alt == d + cost
         IN  IF Improves(alt, st.dist[v])
             THEN RelaxEdges([st EXCEPT !.dist[v] = alt, !.prev[v] = u,
                                        !.pq = Append(@, <<alt, v>>)],
                             d, u, edges, i + 1)
             ELSE RelaxEdges(st, d, u, edges, i + 1)

RECURSIVE DijkstraLoop(_, _)
DijkstraLoop(st, topo_in) ==
    IF st.pq = <<>> THEN st
    ELSE LET p == HeapPop(st.pq)
             d == p.top[1]
             u == p.top[2]
         IN  IF u \in st.vis
             THEN DijkstraLoop([st EXCEPT !.pq = p.rest], topo_in)
             ELSE DijkstraLoop(
                      RelaxEdges([st EXCEPT !.pq = p.rest, !.vis = @ \cup {u}],
                                 d, u, TopoGet(topo_in, u), 1),
                      topo_in)

RECURSIVE WalkPrev(_, _, _)
WalkPrev(prev, node, src) ==
    IF prev[node] # src /\ prev[node] # None
    THEN WalkPrev(prev, prev[node], src)
    ELSE node

NextHopAlwaysDest(prev, dist, src, dst) ==
    IF dst = src THEN src
    ELSE IF IsInf(dist[dst]) THEN UNREACHABLE_HOP
    ELSE dst

NextHop(prev, dist, src, dst) ==
    IF dst = src THEN src
    ELSE IF IsInf(dist[dst]) THEN UNREACHABLE_HOP
    ELSE LET node == WalkPrev(prev, dst, src)
         IN  IF prev[node] = src THEN node ELSE UNREACHABLE_HOP

_dijkstra(src, topo_in, k) ==
    LET st0 == [dist |-> [i \in Ids(k) |-> IF i = src THEN 0 ELSE Inf],
                prev |-> [i \in Ids(k) |-> None],
                vis  |-> {},
                pq   |-> << <<0, src>> >>]
        st == DijkstraLoop(st0, topo_in)
    IN  [dist |-> st.dist,
         hop  |-> [dst \in Ids(k) |-> NextHop(st.prev, st.dist, src, dst)]]

(***************************************************************************)
(* RoutingCache                                                            *)
(***************************************************************************)
RoutingEntryNoSentinel(sid, did, r) == <<sid, did, r.hop[did], r.dist[did]>>

RoutingEntry(sid, did, r) ==
    IF IsInf(r.dist[did])
    THEN <<sid, did, UNREACHABLE_HOP, UNREACHABLE_DISTANCE>>
    ELSE <<sid, did, r.hop[did], r.dist[did]>>

_compute_routing_tables(topo_in, k) ==
    [sid \in Ids(k) |->
        LET r == _dijkstra(sid, topo_in, k)
        IN  [j \in 1 .. k |-> RoutingEntry(sid, j - 1, r)]]

\* RoutingCache(): _last_topo is None until the first update
EmptyCache ==
    [has_topo |-> FALSE, last_topo |-> <<>>, routes_by_switch |-> <<>>, n |-> 0]

SameInputsNever(c, topo_in, k) == FALSE

\* a comparison of the switch sets only
SameInputsByKeys(c, topo_in, k) ==
    c.has_topo /\ DOMAIN c.last_topo = DOMAIN topo_in /\ c.n = k

SameInputs(c, topo_in, k) == c.has_topo /\ c.last_topo = topo_in /\ c.n = k

\* RoutingCache.update: the cache after the call and the value returned
update(c, topo_in, k) ==
    IF SameInputs(c, topo_in, k)
    THEN [changed |-> FALSE, cache |-> c]
    ELSE [changed |-> TRUE,
          cache |-> [has_topo |-> TRUE, last_topo |-> topo_in,
                     routes_by_switch |-> _compute_routing_tables(topo_in, k),
                     n |-> k]]


(***************************************************************************)
(* State of the Controller process.                                        *)
(*   pc               where the process is: "config", "register",          *)
(*                    "respond", "init", "steady", "crashed"               *)
(*                    ("engine_done": the engine was applied, SpecEngine)  *)
(*   topo             the declared topology (topo, topo_template)          *)
(*   n                the switch count                                     *)
(*   sw, sw_order     registration records and their insertion order       *)
(*   switch_alive, last_heard, switch_neighbors, cache                     *)
(*   log              Controller.log, one element per write_to_log         *)
(*   sent             the datagrams handed to ctrl.sendto, in order        *)
(*   now, wake        the clock, and when periodic_check's sleep ends      *)
(*   switches         the Switch processes (SpecNet)                       *)
(*   net              the datagrams in flight, in the order sent (SpecNet) *)
(*   codec            a message, its bytes and what they decode to         *)
(*                    (SpecCodec)                                          *)
(*   threads          the lock of a process and the position of its two    *)
(*                    threads (SpecThreads)                                *)
(***************************************************************************)
VARIABLES pc, topo, n, sw, sw_order, switch_alive, last_heard,
          switch_neighbors, cache, log, sent, now, wake,
          switches, net, codec, threads

vars == <<pc, topo, n, sw, sw_order, switch_alive, last_heard,
          switch_neighbors, cache, log, sent, now, wake,
          switches, net, codec, threads>>

\* the state outside the whole-handler steps of the Controller process
netVars == <<switches, net, codec, threads>>

\* the state the steady-state handlers work on
liveVars == <<sw, sw_order, switch_alive, last_heard, switch_neighbors>>

ioVars == <<log, sent>>

timeVars == <<now, wake>>

(***************************************************************************)
(* SpecEngine: a config file is read edge line by edge line; at any point  *)
(* the timeout detector's view is drawn and the engine is applied to the   *)
(* effective topology, as recompute_and_send does.                         *)
(***************************************************************************)
HasEdge(t, a, b) == \E e \in Range(t[a]) : e[1] = b

\* edge lines read so far
NumLines(t) ==
    Cardinality({p \in (DOMAIN t) \X (DOMAIN t) : p[1] < p[2] /\ HasEdge(t, p[1], p[2])})

\* switch_neighbors as seeded on bootstrap: every declared neighbor alive
SeedNeighbors(t, ids) == [sid \in ids |-> [nid \in {e[1] : e \in Range(TopoGet(t, sid))} |-> TRUE]]

EngineInit ==
    /\ pc = "config"
    /\ n = EngineN
    /\ topo = ParseConfig(EngineN, <<>>)
    /\ sw = <<>>
    /\ sw_order = <<>>
    /\ switch_alive = <<>>
    /\ last_heard = <<>>
    /\ switch_neighbors = <<>>
    /\ cache = EmptyCache
    /\ log = <<>>
    /\ sent = <<>>
    /\ now = 0
    /\ wake = 0
    /\ switches = <<>>
    /\ net = <<>>
    /\ codec = <<>>
    /\ threads = <<>>

\* bootstrap, one edge line of the config file
ReadEdge(s1, s2, dist) ==
    /\ pc = "config"
    /\ s1 < s2
    /\ ~HasEdge(topo, s1, s2)
    /\ NumLines(topo) < MaxEdges
    /\ topo' = ParseEdges(topo, << <<s1, s2, dist>> >>, 1)
    /\ UNCHANGED <<pc, n, liveVars, cache, ioVars, timeVars>>
    /\ UNCHANGED netVars

\* recompute_and_send's engine call, on the view alive of the switches
EngineApply(alive) ==
    /\ pc = "config"
    /\ Cardinality({s \in Ids(n) : ~alive[s]}) <= MaxDead
    /\ switch_alive' = alive
    /\ switch_neighbors' = SeedNeighbors(topo, Ids(n))
    /\ cache' = update(cache, build_topology(topo, alive, SeedNeighbors(topo, Ids(n))), n).cache
    /\ pc' = "engine_done"
    /\ UNCHANGED <<topo, n, sw, sw_order, last_heard, ioVars, timeVars>>
    /\ UNCHANGED netVars

EngineNext ==
    \/ \E s1, s2 \in Ids(n), dist \in Costs : ReadEdge(s1, s2, dist)
    \/ \E alive \in [Ids(n) -> BOOLEAN] : EngineApply(alive)

SpecEngine == EngineInit /\ [][EngineNext]_vars


(***************************************************************************)
(* Message type tags (common.py) and the datagrams of the Controller.      *)
(* A datagram handed to ctrl.sendto: the address, the type tag, and the    *)
(* neighbor records (REGISTER_RESPONSE) or the routes (ROUTING_UPDATE).    *)
(***************************************************************************)
BIN_REGISTER_REQUEST == 1
BIN_REGISTER_RESPONSE == 2
BIN_ROUTING_UPDATE == 3
BIN_KEEP_ALIVE == 4
BIN_TOPOLOGY_UPDATE == 5

Datagram(host, port, type, nbrs, routes) ==
    [host |-> host, port |-> port, type |-> type, nbrs |-> nbrs, routes |-> routes]

\* ctrl.sendto(serialize_register_response(nbrs), (host, port))
RegisterResponse(host, port, nbrs) == Datagram(host, port, BIN_REGISTER_RESPONSE, nbrs, <<>>)

\* ctrl.sendto(serialize_routing_update(rt), (host, port))
RoutingUpdate(host, port, rt) == Datagram(host, port, BIN_ROUTING_UPDATE, <<>>, rt)

(***************************************************************************)
(* The log: one element per write_to_log call (the time-of-day line is     *)
(* left out).                                                              *)
(***************************************************************************)
LogLine(ev, ids, rows) == [ev |-> ev, ids |-> ids, rows |-> rows]

register_request_received(s) == LogLine("Register Request", <<s>>, <<>>)
register_response_sent(s) == LogLine("Register Response", <<s>>, <<>>)
routing_table_update(rows) == LogLine("Routing Update", <<>>, rows)
topology_update_link_dead(a, b) == LogLine("Link Dead", <<a, b>>, <<>>)
topology_update_switch_dead(s) == LogLine("Switch Dead", <<s>>, <<>>)
topology_update_switch_alive(s) == LogLine("Switch Alive", <<s>>, <<>>)

(***************************************************************************)
(* Bounds of the protocol runs and the datagrams the Controller receives.  *)
(***************************************************************************)
\* restarts of one switch: a switch's k-th restart binds a new ephemeral port
MaxRestarts == 1
\* the clock stops at MaxTime
MaxTime == 6
\* the handlers run while the log has fewer than MaxLog entries
MaxLog == 8

\* the ephemeral port of switch s after k restarts
PortOf(s, k) == 100 * (s + 1) + k

Ports(s) == {PortOf(s, k) : k \in 0 .. MaxRestarts}

\* the config file of the protocol runs: the ring 0-1-...-(k-1)-0, the closing
\* edge of cost 5, the other edges of cost 1 (for 3 switches the triangle
\* 0-1 cost 1, 1-2 cost 1, 0-2 cost 5)
RingLines(k) ==
    [i \in 1 .. k |-> IF i < k THEN <<i - 1, i, 1>> ELSE <<0, k - 1, 5>>]

\* the reports a TOPOLOGY_UPDATE of switch s carries: its declared neighbors in
\* the order of its REGISTER_RESPONSE with any flags, or no record at all
Reports(t, s) ==
    LET nl == TopoGet(t, s)
    IN  {[i \in 1 .. Len(nl) |-> <<nl[i][1], f[i]>>] : f \in [1 .. Len(nl) -> BOOLEAN]}
            \cup {<<>>}

(***************************************************************************)
(* RoutingCache.flat_routes and send_routing_updates.  use_alive is FALSE  *)
(* for the calls without a switch_alive argument (switch_alive is None).   *)
(***************************************************************************)
IncludeAll(use_alive, alive, sid) == TRUE

Include(use_alive, alive, sid) == ~use_alive \/ AliveGet(alive, sid, FALSE)

RECURSIVE FlatFrom(_, _, _, _, _)
FlatFrom(rbs, use_alive, alive, sid, k) ==
    IF sid >= k THEN <<>>
    ELSE (IF Include(use_alive, alive, sid) THEN rbs[sid] ELSE <<>>)
             \o FlatFrom(rbs, use_alive, alive, sid + 1, k)

flat_routes(c, use_alive, alive) == FlatFrom(c.routes_by_switch, use_alive, alive, 0, c.n)

RECURSIVE SendFrom(_, _, _, _, _, _)
SendFrom(swi, rbs, use_alive, alive, sid, k) ==
    IF sid >= k THEN <<>>
    ELSE (IF sid \in DOMAIN swi /\ Include(use_alive, alive, sid)
          THEN <<RoutingUpdate(swi[sid].host, swi[sid].port, rbs[sid])>>
          ELSE <<>>)
             \o SendFrom(swi, rbs, use_alive, alive, sid + 1, k)

send_routing_updates(swi, c, use_alive, alive) ==
    SendFrom(swi, c.routes_by_switch, use_alive, alive, 0, c.n)

(***************************************************************************)
(* build_neighbor_list                                                     *)
(***************************************************************************)
\* the alive flag read from the map even when the caller passes none
NeighborInfoFromMap(swi, use_alive, alive, nid) ==
    [id    |-> nid,
     alive |-> AliveGet(alive, nid, FALSE),
     host  |-> IF nid \in DOMAIN swi THEN swi[nid].host ELSE LOCALHOST,
     port  |-> IF nid \in DOMAIN swi THEN swi[nid].port ELSE 0]

NeighborInfo(swi, use_alive, alive, nid) ==
    [id    |-> nid,
     alive |-> IF use_alive THEN AliveGet(alive, nid, FALSE) ELSE TRUE,
     host  |-> IF nid \in DOMAIN swi THEN swi[nid].host ELSE LOCALHOST,
     port  |-> IF nid \in DOMAIN swi THEN swi[nid].port ELSE 0]

build_neighbor_list(t, sid, swi, use_alive, alive) ==
    LET nl == TopoGet(t, sid)
    IN  [i \in 1 .. Len(nl) |-> NeighborInfo(swi, use_alive, alive, nl[i][1])]

(***************************************************************************)
(* recompute_and_send on the state (alive, nbrs, swi, c): the cache after  *)
(* the call, the log lines written and the datagrams sent.                 *)
(***************************************************************************)
recompute_and_send(t, k, alive, nbrs, swi, c) ==
    LET u == update(c, build_topology(t, alive, nbrs), k)
    IN  IF u.changed
        THEN [cache |-> u.cache,
              log   |-> <<routing_table_update(flat_routes(u.cache, TRUE, alive))>>,
              sent  |-> send_routing_updates(swi, u.cache, TRUE, alive)]
        ELSE [cache |-> u.cache, log |-> <<>>, sent |-> <<>>]

(***************************************************************************)
(* Spec: the Controller process, from the bootstrap receive loop on.       *)
(***************************************************************************)
\* d[k] = v
Put(d, k, v) == [x \in DOMAIN d \cup {k} |-> IF x = k THEN v ELSE d[x]]

\* the insertion order of a dictionary after d[k] = v
PutOrder(order, d, k) == IF k \in DOMAIN d THEN order ELSE Append(order, k)

SwitchInfo(host, port) == [host |-> host, port |-> port]

Init ==
    /\ pc = "register"
    /\ n = N
    /\ topo = ParseConfig(N, RingLines(N))
    /\ sw = <<>>
    /\ sw_order = <<>>
    /\ switch_alive = <<>>
    /\ last_heard = <<>>
    /\ switch_neighbors = <<>>
    /\ cache = EmptyCache
    /\ log = <<>>
    /\ sent = <<>>
    /\ now = 0
    /\ wake = 0
    /\ switches = <<>>
    /\ net = <<>>
    /\ codec = <<>>
    /\ threads = <<>>

\* bootstrap's receive loop, one REGISTER_REQUEST (a request repeats an id at
\* most MaxRestarts times in all)
BootRegister(sid, host, sport) ==
    /\ pc = "register"
    /\ sid \in DOMAIN sw => Len(log) - Cardinality(DOMAIN sw) < MaxRestarts
    /\ log' = Append(log, register_request_received(sid))
    /\ sw' = Put(sw, sid, SwitchInfo(host, sport))
    /\ sw_order' = PutOrder(sw_order, sw, sid)
    /\ pc' = IF Cardinality(DOMAIN sw') < n THEN "register" ELSE "respond"
    /\ UNCHANGED <<topo, n, switch_alive, last_heard, switch_neighbors, cache, sent, timeVars>>
    /\ UNCHANGED netVars

\* bootstrap's receive loop, a datagram of another type: the assert fails
BootAssert(type) ==
    /\ pc = "register"
    /\ type # BIN_REGISTER_REQUEST
    /\ pc' = "crashed"
    /\ UNCHANGED <<topo, n, liveVars, cache, ioVars, timeVars>>
    /\ UNCHANGED netVars

RECURSIVE ResponsesFrom(_, _, _, _)
ResponsesFrom(t, swi, order, i) ==
    IF i > Len(order) THEN <<>>
    ELSE <<RegisterResponse(swi[order[i]].host, swi[order[i]].port,
                            build_neighbor_list(t, order[i], swi, FALSE, <<>>))>>
             \o ResponsesFrom(t, swi, order, i + 1)

\* bootstrap after the loop: a REGISTER_RESPONSE to every registered switch
BootRespond ==
    /\ pc = "respond"
    /\ sent' = sent \o ResponsesFrom(topo, sw, sw_order, 1)
    /\ log' = log \o [i \in 1 .. Len(sw_order) |-> register_response_sent(sw_order[i])]
    /\ pc' = "init"
    /\ UNCHANGED <<topo, n, liveVars, cache, timeVars>>
    /\ UNCHANGED netVars

\* main after bootstrap: the initial tables, then the steady state's maps
MainInit ==
    /\ pc = "init"
    /\ n' = Cardinality(DOMAIN sw)
    /\ cache' = update(cache, topo, n').cache
    /\ log' = Append(log, routing_table_update(flat_routes(cache', FALSE, <<>>)))
    /\ sent' = sent \o send_routing_updates(sw, cache', FALSE, <<>>)
    /\ switch_alive' = [sid \in DOMAIN sw |-> TRUE]
    /\ last_heard' = [sid \in DOMAIN sw |-> now]
    /\ switch_neighbors' = SeedNeighbors(topo, DOMAIN sw)
    /\ wake' = now + UPDATE_DELAY
    /\ pc' = "steady"
    /\ UNCHANGED <<topo, sw, sw_order, now>>
    /\ UNCHANGED netVars

\* every link reported is taken to have been alive before
WasAliveAlways(old_nbrs, nid) == TRUE

\* old_nbrs.get(nid, True)
WasAlive(old_nbrs, nid) == IF nid \in DOMAIN old_nbrs THEN old_nbrs[nid] ELSE TRUE

\* the Link Dead lines of a TOPOLOGY_UPDATE, in the order of its records
RECURSIVE LinkDeadLines(_, _, _, _)
LinkDeadLines(sender, old_nbrs, nbr_status, i) ==
    IF i > Len(nbr_status) THEN <<>>
    ELSE LET nid == nbr_status[i][1]
             alive == nbr_status[i][2]
             was_alive == WasAlive(old_nbrs, nid)
         IN  (IF was_alive /\ ~alive THEN <<topology_update_link_dead(sender, nid)>> ELSE <<>>)
                 \o LinkDeadLines(sender, old_nbrs, nbr_status, i + 1)

\* {nid: alive for nid, alive in nbr_status}
StatusDict(nbr_status) ==
    [nid \in {r[1] : r \in Range(nbr_status)} |->
        LET last == CHOOSE i \in 1 .. Len(nbr_status) :
                        /\ nbr_status[i][1] = nid
                        /\ \A j \in (i + 1) .. Len(nbr_status) : nbr_status[j][1] # nid
        IN  nbr_status[last][2]]

Running == pc = "steady" /\ Len(log) < MaxLog

\* no switch is ever seen to have been dead
SwitchWasDeadNever(alive, sid) == FALSE

\* not switch_alive.get(sid, True)
SwitchWasDead(alive, sid) == ~AliveGet(alive, sid, TRUE)

\* the branch of the receive loop for BIN_TOPOLOGY_UPDATE
HandleTopologyUpdate(sender_id, nbr_status, host, port) ==
       IF sender_id \notin DOMAIN sw
       THEN \* sw[sender_id] raises KeyError: the process ends
            /\ last_heard' = Put(last_heard, sender_id, now)
            /\ pc' = "crashed"
            /\ UNCHANGED <<topo, n, sw, sw_order, switch_alive, switch_neighbors,
                           cache, ioVars, timeVars>>
       ELSE LET was_dead == SwitchWasDead(switch_alive, sender_id)
                alive1 == IF was_dead THEN Put(switch_alive, sender_id, TRUE)
                                      ELSE switch_alive
                old_nbrs == IF sender_id \in DOMAIN switch_neighbors
                            THEN switch_neighbors[sender_id] ELSE <<>>
                sw1 == Put(sw, sender_id, SwitchInfo(host, port))
                nbrs1 == Put(switch_neighbors, sender_id, StatusDict(nbr_status))
                r == recompute_and_send(topo, n, alive1, nbrs1, sw1, cache)
            IN  /\ last_heard' = Put(last_heard, sender_id, now)
                /\ sw' = sw1
                /\ switch_alive' = alive1
                /\ switch_neighbors' = nbrs1
                /\ cache' = r.cache
                /\ log' = log
                          \o (IF was_dead THEN <<topology_update_switch_alive(sender_id)>>
                                          ELSE <<>>)
                          \o LinkDeadLines(sender_id, old_nbrs, nbr_status, 1)
                          \o r.log
                /\ sent' = sent \o r.sent
                /\ UNCHANGED <<pc, topo, n, sw_order, timeVars>>

\* the receive loop, a TOPOLOGY_UPDATE from (host, port)
TopologyUpdate(sender_id, nbr_status, host, port) ==
    /\ Running
    /\ HandleTopologyUpdate(sender_id, nbr_status, host, port)
    /\ UNCHANGED netVars

\* the routes the cache held for sid before the handler ran
RoutesOfStale(c, sid) ==
    IF sid \in DOMAIN cache.routes_by_switch THEN cache.routes_by_switch[sid] ELSE <<>>

\* cache.routes_by_switch.get(sid, [])
RoutesOf(c, sid) ==
    IF sid \in DOMAIN c.routes_by_switch THEN c.routes_by_switch[sid] ELSE <<>>

\* the branch of the receive loop for BIN_REGISTER_REQUEST
HandleRegisterRequest(sid_restart, host, sport_restart) ==
    /\ LET sw1 == Put(sw, sid_restart, SwitchInfo(host, sport_restart))
           nbrs == build_neighbor_list(topo, sid_restart, sw1,
                                       DOMAIN switch_alive # {}, switch_alive)
           was_dead == SwitchWasDead(switch_alive, sid_restart)
           alive1 == Put(switch_alive, sid_restart, TRUE)
           nbrs1 == Put(switch_neighbors, sid_restart,
                        [nid \in {e[1] : e \in Range(TopoGet(topo, sid_restart))} |-> TRUE])
           r == recompute_and_send(topo, n, alive1, nbrs1, sw1, cache)
           own == RoutesOf(r.cache, sid_restart)
       IN  /\ sw' = sw1
           /\ sw_order' = PutOrder(sw_order, sw, sid_restart)
           /\ switch_alive' = alive1
           /\ last_heard' = Put(last_heard, sid_restart, now)
           /\ switch_neighbors' = nbrs1
           /\ cache' = r.cache
           /\ log' = log
                     \o <<register_request_received(sid_restart),
                          register_response_sent(sid_restart)>>
                     \o (IF was_dead THEN <<topology_update_switch_alive(sid_restart)>>
                                     ELSE <<>>)
                     \o r.log
           /\ sent' = sent
                      \o <<RegisterResponse(host, sport_restart, nbrs)>>
                      \o r.sent
                      \o <<RoutingUpdate(host, sport_restart, own)>>
    /\ UNCHANGED <<pc, topo, n, timeVars>>

\* the receive loop, a REGISTER_REQUEST of a restarted switch
RegisterRequest(sid_restart, host, sport_restart) ==
    /\ Running
    /\ HandleRegisterRequest(sid_restart, host, sport_restart)
    /\ UNCHANGED netVars

\* the receive loop, a datagram of a type it has no branch for
IgnoreDatagram(type) ==
    /\ Running
    /\ type \notin {BIN_TOPOLOGY_UPDATE, BIN_REGISTER_REQUEST}
    /\ UNCHANGED vars

\* a switch is declared dead one round before its timeout
TimedOutEarly(sid) ==
    AliveGet(switch_alive, sid, FALSE) /\ now - last_heard[sid] >= TIMEOUT - UPDATE_DELAY

\* switch_alive.get(sid, False) and (now - last_heard[sid]) >= TIMEOUT
TimedOut(sid) == AliveGet(switch_alive, sid, FALSE) /\ now - last_heard[sid] >= TIMEOUT

RECURSIVE SwitchDeadLines(_, _)
SwitchDeadLines(order, i) ==
    IF i > Len(order) THEN <<>>
    ELSE (IF TimedOut(order[i]) THEN <<topology_update_switch_dead(order[i])>> ELSE <<>>)
             \o SwitchDeadLines(order, i + 1)

\* periodic_check, one round after its sleep
periodic_check ==
    /\ LET alive1 == [sid \in DOMAIN switch_alive |->
                        IF sid \in DOMAIN last_heard /\ TimedOut(sid) THEN FALSE
                        ELSE switch_alive[sid]]
           changed == alive1 # switch_alive
           r == IF changed
                THEN recompute_and_send(topo, n, alive1, switch_neighbors, sw, cache)
                ELSE [cache |-> cache, log |-> <<>>, sent |-> <<>>]
       IN  /\ switch_alive' = alive1
           /\ cache' = r.cache
           /\ log' = log \o SwitchDeadLines(sw_order, 1) \o r.log
           /\ sent' = sent \o r.sent
    /\ wake' = now + UPDATE_DELAY
    /\ UNCHANGED <<pc, topo, n, sw, sw_order, last_heard, switch_neighbors, now>>

\* the timer thread takes the lock when its sleep has ended
Tick ==
    /\ Running
    /\ now >= wake
    /\ periodic_check
    /\ UNCHANGED netVars

\* time passes until the sleep of periodic_check ends (time.time() is read at
\* these instants)
Advance ==
    /\ pc = "steady"
    /\ now < wake
    /\ now < MaxTime
    /\ now' = wake
    /\ UNCHANGED <<pc, topo, n, liveVars, cache, ioVars, wake>>
    /\ UNCHANGED netVars

\* ids of the datagrams received: the switches, and one id no switch has
SenderIds == Ids(N) \cup {N}

\* the port a starting switch announces: an ephemeral port it does not hold yet
AnnouncedPorts(s) == IF s \in DOMAIN sw THEN Ports(s) \ {sw[s].port} ELSE {PortOf(s, 0)}

\* the source port of a TOPOLOGY_UPDATE: the socket its sender registered
SourcePorts(s) == IF s \in DOMAIN sw THEN {sw[s].port} ELSE {PortOf(s, 0)}

MessageTypes == BIN_REGISTER_REQUEST .. BIN_TOPOLOGY_UPDATE

Next ==
    \/ \E sid \in Ids(N) : \E sport \in AnnouncedPorts(sid) : BootRegister(sid, LOCALHOST, sport)
    \/ \E type \in MessageTypes : BootAssert(type)
    \/ BootRespond
    \/ MainInit
    \/ \E s \in SenderIds : \E port \in SourcePorts(s), st \in Reports(topo, s) :
            TopologyUpdate(s, st, LOCALHOST, port)
    \/ \E s \in SenderIds : \E sport \in AnnouncedPorts(s) : RegisterRequest(s, LOCALHOST, sport)
    \/ \E type \in MessageTypes : IgnoreDatagram(type)
    \/ Tick
    \/ Advance

Spec == Init /\ [][Next]_vars

(***************************************************************************)
(* The Switch process (switch.py).  A switch is a record                   *)
(*   pc               "down", "wait_response" (register_with_controller    *)
(*                    waits for the REGISTER_RESPONSE), "wait_routes"      *)
(*                    (main waits for the datagram after it), "up"         *)
(*   port             the port of its socket                               *)
(*   failed_neighbor  the id given with -f, or None                        *)
(*   nbrs             the neighbor records of the REGISTER_RESPONSE        *)
(*   neighbors        the neighbors dictionary, in insertion order: id,    *)
(*                    host, port, alive, last_heard                        *)
(*   wake             when the sleep of periodic_tasks ends                *)
(*   log              switch<id>.log, one element per write_to_log         *)
(***************************************************************************)
register_request_sent == LogLine("Register Request Sent", <<>>, <<>>)

register_response_received == LogLine("Register Response Received", <<>>, <<>>)

\* switch.py's routing_table_update: rows without the distance
switch_routing_table_update(rows) ==
    LogLine("Routing Update", <<>>,
            [i \in 1 .. Len(rows) |-> <<rows[i][1], rows[i][2], rows[i][3]>>])

neighbor_dead(nid) == LogLine("Neighbor Dead", <<nid>>, <<>>)

neighbor_alive(nid) == LogLine("Neighbor Alive", <<nid>>, <<>>)

\* the port the Controller binds (its first argument)
ControllerPort == 9000

\* a datagram in flight: destination, source port (every socket is bound to
\* LOCALHOST), and the decoded content
Packet(host, port, src, type, id, sport, nbrs, routes) ==
    [host |-> host, port |-> port, src |-> src, type |-> type, id |-> id,
     sport |-> sport, nbrs |-> nbrs, routes |-> routes]

\* a datagram the Controller handed to ctrl.sendto
FromController(d) ==
    Packet(d.host, d.port, ControllerPort, d.type, None, None, d.nbrs, d.routes)

AllFromController(q) == [i \in 1 .. Len(q) |-> FromController(q[i])]

\* sock.sendto(serialize_register_request(sid, sport), (host, port))
RegisterRequestPacket(sid, sport) ==
    Packet(LOCALHOST, ControllerPort, sport, BIN_REGISTER_REQUEST, sid, sport, <<>>, <<>>)

\* sock.sendto(serialize_keep_alive(sid), (info[KEY_HOST], info[KEY_PORT]))
KeepAlivePacket(sid, src, info) ==
    Packet(info.host, info.port, src, BIN_KEEP_ALIVE, sid, None, <<>>, <<>>)

\* send_topology_update
send_topology_update(sid, src, neighbors) ==
    Packet(LOCALHOST, ControllerPort, src, BIN_TOPOLOGY_UPDATE, sid, None,
           [i \in 1 .. Len(neighbors) |-> <<neighbors[i].id, neighbors[i].alive>>], <<>>)

\* the neighbors dictionary main builds from the REGISTER_RESPONSE at time t
InitNeighbors(nbrs, t) ==
    [i \in 1 .. Len(nbrs) |->
        [id |-> nbrs[i].id, host |-> nbrs[i].host, port |-> nbrs[i].port,
         alive |-> TRUE, last_heard |-> t]]

SwitchDown(port, lines) ==
    [pc |-> "down", port |-> port, failed_neighbor |-> None, nbrs |-> <<>>,
     neighbors |-> <<>>, wake |-> 0, log |-> lines]

\* a neighbor whose last keep-alive is TIMEOUT old at the strict comparison
NeighborTimedOutLate(info, t) == info.alive /\ t - info.last_heard > TIMEOUT

\* info[KEY_ALIVE] and (now - info['last_heard']) >= TIMEOUT
NeighborTimedOut(info, t) == info.alive /\ t - info.last_heard >= TIMEOUT

RECURSIVE NeighborDeadLines(_, _, _)
NeighborDeadLines(neighbors, t, i) ==
    IF i > Len(neighbors) THEN <<>>
    ELSE (IF NeighborTimedOut(neighbors[i], t) THEN <<neighbor_dead(neighbors[i].id)>>
          ELSE <<>>) \o NeighborDeadLines(neighbors, t, i + 1)

\* a switch that sends to the neighbor named with -f as to any other
SkipsNever(failed_neighbor, nid) == FALSE

\* failed_neighbor is not None and nid == failed_neighbor
Skips(failed_neighbor, nid) == failed_neighbor # None /\ nid = failed_neighbor

\* a switch that sends KEEP_ALIVE to the neighbors it marks dead as well
SendsToAll(info) == TRUE

\* if not info[KEY_ALIVE]: continue
SendsTo(info) == info.alive

RECURSIVE KeepAlives(_, _, _, _, _)
KeepAlives(sid, src, failed_neighbor, neighbors, i) ==
    IF i > Len(neighbors) THEN <<>>
    ELSE (IF SendsTo(neighbors[i]) /\ ~Skips(failed_neighbor, neighbors[i].id)
          THEN <<KeepAlivePacket(sid, src, neighbors[i])>> ELSE <<>>)
             \o KeepAlives(sid, src, failed_neighbor, neighbors, i + 1)

\* periodic_tasks, one round at time t: the switch after it and what it sent
periodic_tasks(sid, s, t) ==
    LET nb1 == [i \in 1 .. Len(s.neighbors) |->
                   IF NeighborTimedOut(s.neighbors[i], t)
                   THEN [s.neighbors[i] EXCEPT !.alive = FALSE]
                   ELSE s.neighbors[i]]
    IN  [switch |-> [s EXCEPT !.neighbors = nb1,
                              !.log = s.log \o NeighborDeadLines(s.neighbors, t, 1),
                              !.wake = t + UPDATE_DELAY],
         sends  |-> KeepAlives(sid, s.port, s.failed_neighbor, nb1, 1)
                        \o <<send_topology_update(sid, s.port, nb1)>>]

\* a revived neighbor keeps the address it had
TakesAddressNever(was_dead) == FALSE

\* the address is taken from the datagram when the neighbor was marked dead
TakesAddress(was_dead) == was_dead

\* a keep-alive revives nobody
WasDeadNever(info) == FALSE

\* the neighbor was marked dead when its keep-alive came in
WasDead(info) == ~info.alive

\* the receive loop of a running switch, a KEEP_ALIVE of sender_id from (host, src)
HandleKeepAlive(sid, s, sender_id, host, src, t) ==
    IF Skips(s.failed_neighbor, sender_id)
       \/ ~\E i \in 1 .. Len(s.neighbors) : s.neighbors[i].id = sender_id
    THEN [switch |-> s, sends |-> <<>>]
    ELSE LET i == CHOOSE j \in 1 .. Len(s.neighbors) : s.neighbors[j].id = sender_id
             was_dead == WasDead(s.neighbors[i])
             info == [s.neighbors[i] EXCEPT
                        !.last_heard = t,
                        !.alive = TRUE,
                        !.host = IF TakesAddress(was_dead) THEN host ELSE @,
                        !.port = IF TakesAddress(was_dead) THEN src ELSE @]
             nb1 == [s.neighbors EXCEPT ![i] = info]
         IN  IF was_dead
             THEN [switch |-> [s EXCEPT !.neighbors = nb1,
                                        !.log = Append(s.log, neighbor_alive(sender_id))],
                   sends  |-> <<send_topology_update(sid, s.port, nb1)>>]
             ELSE [switch |-> [s EXCEPT !.neighbors = nb1], sends |-> <<>>]

\* what a switch does with the datagram m at time t
SwitchReceive(sid, s, m, t) ==
    CASE s.pc = "wait_response" ->
            IF m.type = BIN_REGISTER_RESPONSE
            THEN [switch |-> [s EXCEPT !.pc = "wait_routes", !.nbrs = m.nbrs,
                                       !.log = Append(s.log, register_response_received)],
                  sends  |-> <<>>]
            ELSE [switch |-> SwitchDown(s.port, s.log), sends |-> <<>>]
      [] s.pc = "wait_routes" ->
            [switch |-> [s EXCEPT
                            !.pc = "up",
                            !.neighbors = InitNeighbors(s.nbrs, t),
                            !.wake = t + UPDATE_DELAY,
                            !.log = IF m.type = BIN_ROUTING_UPDATE
                                    THEN Append(s.log, switch_routing_table_update(m.routes))
                                    ELSE s.log],
             sends  |-> <<>>]
      [] s.pc = "up" /\ m.type = BIN_KEEP_ALIVE ->
            HandleKeepAlive(sid, s, m.id, LOCALHOST, m.src, t)
      [] s.pc = "up" /\ m.type = BIN_ROUTING_UPDATE ->
            [switch |-> [s EXCEPT !.log = Append(s.log, switch_routing_table_update(m.routes))],
             sends  |-> <<>>]
      [] OTHER -> [switch |-> s, sends |-> <<>>]

(***************************************************************************)
(* SpecNet: the Controller after bootstrap, the Switch processes and the   *)
(* datagrams between them.  A datagram is delivered, in the order sent,    *)
(* before anything else happens; a switch is stopped and started again by  *)
(* its operator.                                                           *)
(***************************************************************************)
\* faults of one run: switches started with -f, switches stopped
MaxFaults == 1
\* the clock of SpecNet stops at MaxNetTime
MaxNetTime == 12

\* what a step of the Controller appended to the log and handed to sendto
NewLog == SubSeq(log', Len(log) + 1, Len(log'))

NewSent == SubSeq(sent', Len(sent) + 1, Len(sent'))

ctrlVars == <<pc, topo, n, sw, sw_order, switch_alive, last_heard,
              switch_neighbors, cache, log, sent, wake>>

DeclaredTopo == ParseConfig(N, RingLines(N))

\* the registration records when switch s registered from port PortOf(s, 0)
FirstRecords == [s \in Ids(N) |-> SwitchInfo(LOCALHOST, PortOf(s, 0))]

IdOrder == [i \in 1 .. N |-> i - 1]

\* the -f arguments of a run: at most MaxFaults switches name a declared neighbor
FlagChoices ==
    {f \in [Ids(N) -> {None} \cup Ids(N)] :
        /\ \A s \in Ids(N) : f[s] # None => HasEdge(DeclaredTopo, s, f[s])
        /\ Cardinality({s \in Ids(N) : f[s] # None}) <= MaxFaults}

\* a switch that registered at time t and got its routes
SwitchUp(s, flag, t, routes) ==
    [pc |-> "up", port |-> PortOf(s, 0), failed_neighbor |-> flag,
     nbrs |-> build_neighbor_list(DeclaredTopo, s, FirstRecords, FALSE, <<>>),
     neighbors |-> InitNeighbors(
                     build_neighbor_list(DeclaredTopo, s, FirstRecords, FALSE, <<>>), t),
     wake |-> t + UPDATE_DELAY,
     log |-> <<register_request_sent, register_response_received,
               switch_routing_table_update(routes)>>]

\* the Controller after bootstrap: the switches registered in the order of
\* their ids from their first ports, nothing is in flight
SteadyStart ==
    /\ pc = "steady"
    /\ n = N
    /\ topo = DeclaredTopo
    /\ sw = FirstRecords
    /\ sw_order = IdOrder
    /\ switch_alive = [s \in Ids(N) |-> TRUE]
    /\ last_heard = [s \in Ids(N) |-> 0]
    /\ switch_neighbors = SeedNeighbors(DeclaredTopo, Ids(N))
    /\ cache = update(EmptyCache, DeclaredTopo, N).cache
    /\ log = [i \in 1 .. N |-> register_request_received(i - 1)]
                \o [i \in 1 .. N |-> register_response_sent(i - 1)]
                \o <<routing_table_update(flat_routes(cache, FALSE, <<>>))>>
    /\ sent = ResponsesFrom(DeclaredTopo, FirstRecords, IdOrder, 1)
                \o send_routing_updates(FirstRecords, cache, FALSE, <<>>)
    /\ now = 0
    /\ wake = UPDATE_DELAY
    /\ net = <<>>

\* the network after bootstrap: every process is in its steady state
NetStart(f) ==
    /\ SteadyStart
    /\ switches = [s \in Ids(N) |-> SwitchUp(s, f[s], 0, cache.routes_by_switch[s])]

NetInit ==
    /\ \E f \in FlagChoices : NetStart(f)
    /\ codec = <<>>
    /\ threads = <<>>

Idle == net = <<>>

\* periodic_tasks of switch s, when its sleep has ended
SwitchTick(s) ==
    /\ Idle
    /\ switches[s].pc = "up"
    /\ now >= switches[s].wake
    /\ LET r == periodic_tasks(s, switches[s], now)
       IN  /\ switches' = [switches EXCEPT ![s] = r.switch]
           /\ net' = r.sends
    /\ UNCHANGED <<ctrlVars, now, codec, threads>>

\* periodic_check of the Controller, when its sleep has ended
ControllerTick ==
    /\ Idle
    /\ pc = "steady"
    /\ now >= wake
    /\ periodic_check
    /\ net' = AllFromController(NewSent)
    /\ UNCHANGED <<switches, codec, threads>>

\* the Controller receives the TOPOLOGY_UPDATE at the head of net
DeliverTopologyUpdate ==
    /\ net # <<>>
    /\ pc = "steady"
    /\ Head(net).port = ControllerPort
    /\ Head(net).type = BIN_TOPOLOGY_UPDATE
    /\ HandleTopologyUpdate(Head(net).id, Head(net).nbrs, LOCALHOST, Head(net).src)
    /\ net' = Tail(net) \o AllFromController(NewSent)
    /\ UNCHANGED <<switches, codec, threads>>

\* the Controller receives the REGISTER_REQUEST at the head of net
DeliverRegisterRequest ==
    /\ net # <<>>
    /\ pc = "steady"
    /\ Head(net).port = ControllerPort
    /\ Head(net).type = BIN_REGISTER_REQUEST
    /\ HandleRegisterRequest(Head(net).id, LOCALHOST, Head(net).sport)
    /\ net' = Tail(net) \o AllFromController(NewSent)
    /\ UNCHANGED <<switches, codec, threads>>

\* switch s receives the datagram at the head of net
DeliverToSwitch(s) ==
    /\ net # <<>>
    /\ switches[s].pc # "down"
    /\ Head(net).port = switches[s].port
    /\ LET r == SwitchReceive(s, switches[s], Head(net), now)
       IN  /\ switches' = [switches EXCEPT ![s] = r.switch]
           /\ net' = Tail(net) \o r.sends
    /\ UNCHANGED <<ctrlVars, now, codec, threads>>

\* the datagram at the head of net is addressed to a port no socket is bound to
DropAtClosedPort ==
    /\ net # <<>>
    /\ Head(net).port # ControllerPort
    /\ \A s \in Ids(N) : switches[s].pc = "down" \/ switches[s].port # Head(net).port
    /\ net' = Tail(net)
    /\ UNCHANGED <<ctrlVars, now, switches, codec, threads>>

Faults ==
    Cardinality({s \in Ids(N) : switches[s].failed_neighbor # None})
        + Cardinality({s \in Ids(N) : switches[s].pc = "down"
                                        \/ switches[s].port # PortOf(s, 0)})

\* the process of switch s is killed
Kill(s) ==
    /\ Idle
    /\ switches[s].pc = "up"
    /\ Faults < MaxFaults
    /\ switches' = [switches EXCEPT ![s] = SwitchDown(switches[s].port, switches[s].log)]
    /\ UNCHANGED <<ctrlVars, now, net, codec, threads>>

\* switch s is started again (without -f): register_with_controller binds a
\* new port and sends the REGISTER_REQUEST
Restart(s) ==
    /\ Idle
    /\ switches[s].pc = "down"
    /\ switches[s].port - PortOf(s, 0) < MaxRestarts
    /\ switches' = [switches EXCEPT ![s] =
                      [SwitchDown(switches[s].port + 1, switches[s].log) EXCEPT
                          !.pc = "wait_response",
                          !.log = Append(switches[s].log, register_request_sent)]]
    /\ net' = <<RegisterRequestPacket(s, switches[s].port + 1)>>
    /\ UNCHANGED <<ctrlVars, now, codec, threads>>

\* a second passes when no sleep has ended
NetAdvance ==
    /\ Idle
    /\ now < wake
    /\ \A s \in Ids(N) : switches[s].pc = "up" => now < switches[s].wake
    /\ now < MaxNetTime
    /\ now' = now + 1
    /\ UNCHANGED <<ctrlVars, switches, net, codec, threads>>

\* the steps the processes take by themselves
NetProgress ==
    \/ \E s \in Ids(N) : SwitchTick(s)
    \/ ControllerTick
    \/ DeliverTopologyUpdate
    \/ DeliverRegisterRequest
    \/ \E s \in Ids(N) : DeliverToSwitch(s)
    \/ DropAtClosedPort
    \/ NetAdvance

NetNext ==
    \/ \E s \in Ids(N) : SwitchTick(s)
    \/ ControllerTick
    \/ DeliverTopologyUpdate
    \/ DeliverRegisterRequest
    \/ \E s \in Ids(N) : DeliverToSwitch(s)
    \/ DropAtClosedPort
    \/ NetAdvance
    \/ \E s \in Ids(N) : Kill(s)
    \/ \E s \in Ids(N) : Restart(s)

SpecNet == NetInit /\ [][NetNext]_vars

\* every datagram sent is delivered and every sleep that ended was followed by
\* its round
NothingDue ==
    /\ Idle
    /\ now < wake
    /\ \A s \in Ids(N) : switches[s].pc = "up" => now < switches[s].wake

\* the processes are scheduled and the clock runs: no delivery and no round is
\* put off for ever, and time passes whenever nothing is due
SpecNetFair == SpecNet /\ []<>NothingDue /\ WF_vars(NetAdvance)

(***************************************************************************)
(* The wire format (common.py): struct's network byte order, standard      *)
(* sizes.  A datagram is a sequence of bytes; a decoder that raises        *)
(* (struct.error on a short slice, ValueError on a missing NUL) returns    *)
(* Raised.                                                                 *)
(***************************************************************************)
MinInt32 == -2147483647 - 1
MaxInt32 == 2147483646 + 1

\* data[a:b]
Slice(data, a, b) == SubSeq(data, a + 1, IF b < Len(data) THEN b ELSE Len(data))

\* struct.pack('!H', v)
pack_H(v) == <<v \div 256, v % 256>>

\* struct.pack('!i', v) with the bytes of a non-negative value as they are
pack_i_unsigned(v) ==
    LET w == IF v >= 0 THEN v ELSE -(v + 1)
    IN  <<w \div 16777216, (w \div 65536) % 256, (w \div 256) % 256, w % 256>>

\* struct.pack('!i', v): two's complement, most significant byte first
pack_i(v) ==
    IF v >= 0
    THEN <<v \div 16777216, (v \div 65536) % 256, (v \div 256) % 256, v % 256>>
    ELSE LET w == (v + 2147483647) + 1
         IN  <<128 + (w \div 16777216), (w \div 65536) % 256, (w \div 256) % 256, w % 256>>

\* struct.unpack('!H', b)
unpack_H(b) == b[1] * 256 + b[2]

\* struct.unpack('!i', b)
unpack_i(b) ==
    IF b[1] < 128
    THEN b[1] * 16777216 + b[2] * 65536 + b[3] * 256 + b[4]
    ELSE (((b[1] - 128) * 16777216 + b[2] * 65536 + b[3] * 256 + b[4]) - 2147483647) - 1

Raised == [ok |-> FALSE, val |-> <<>>]

Returned(v) == [ok |-> TRUE, val |-> v]

serialize_register_request(switch_id, port) ==
    <<BIN_REGISTER_REQUEST>> \o pack_i(switch_id) \o pack_i(port)

RECURSIVE PackNeighbors(_, _)
PackNeighbors(neighbors, i) ==
    IF i > Len(neighbors) THEN <<>>
    ELSE pack_i(neighbors[i].id) \o <<IF neighbors[i].alive THEN 1 ELSE 0>>
            \o pack_i(neighbors[i].port) \o neighbors[i].host \o <<0>>
            \o PackNeighbors(neighbors, i + 1)

\* hosts are sequences of the bytes of their utf-8 form
serialize_register_response(neighbors) ==
    <<BIN_REGISTER_RESPONSE>> \o pack_H(Len(neighbors)) \o PackNeighbors(neighbors, 1)

RECURSIVE PackRoutes(_, _)
PackRoutes(routes, i) ==
    IF i > Len(routes) THEN <<>>
    ELSE pack_i(routes[i][1]) \o pack_i(routes[i][2]) \o pack_i(routes[i][3])
            \o pack_i(routes[i][4]) \o PackRoutes(routes, i + 1)

serialize_routing_update(routes) ==
    <<BIN_ROUTING_UPDATE>> \o pack_H(Len(routes)) \o PackRoutes(routes, 1)

serialize_keep_alive(switch_id) == <<BIN_KEEP_ALIVE>> \o pack_i(switch_id)

RECURSIVE PackStatus(_, _)
PackStatus(neighbors, i) ==
    IF i > Len(neighbors) THEN <<>>
    ELSE pack_i(neighbors[i][1]) \o <<IF neighbors[i][2] THEN 1 ELSE 0>>
            \o PackStatus(neighbors, i + 1)

serialize_topology_update(switch_id, neighbors) ==
    <<BIN_TOPOLOGY_UPDATE>> \o pack_i(switch_id) \o pack_H(Len(neighbors))
        \o PackStatus(neighbors, 1)

deserialize_register_request(data) ==
    LET b == Slice(data, 0, 9)
    IN  IF Len(b) # 9 THEN Raised
        ELSE Returned([id |-> unpack_i(SubSeq(b, 2, 5)), port |-> unpack_i(SubSeq(b, 6, 9))])

\* data.index(b'\x00', offset), -1 when it raises ValueError
IndexOfNul(data, offset) ==
    IF \E j \in offset .. Len(data) - 1 : data[j + 1] = 0
    THEN CHOOSE j \in offset .. Len(data) - 1 :
            data[j + 1] = 0 /\ \A k \in offset .. j - 1 : data[k + 1] # 0
    ELSE -1

RECURSIVE ReadNeighbors(_, _, _, _)
ReadNeighbors(data, offset, count, acc) ==
    IF count = 0 THEN Returned(acc)
    ELSE LET b == Slice(data, offset, offset + 9)
             host_end == IndexOfNul(data, offset + 9)
         IN  IF Len(b) # 9 \/ host_end < 0 THEN Raised
             ELSE ReadNeighbors(data, host_end + 1, count - 1,
                      Append(acc, [id    |-> unpack_i(SubSeq(b, 1, 4)),
                                   alive |-> b[5] # 0,
                                   host  |-> Slice(data, offset + 9, host_end),
                                   port  |-> unpack_i(SubSeq(b, 6, 9))]))

deserialize_register_response(data) ==
    LET h == Slice(data, 1, 3)
    IN  IF Len(h) # 2 THEN Raised ELSE ReadNeighbors(data, 3, unpack_H(h), <<>>)

RECURSIVE ReadRoutes(_, _, _, _)
ReadRoutes(data, offset, count, acc) ==
    IF count = 0 THEN Returned(acc)
    ELSE LET b == Slice(data, offset, offset + 16)
         IN  IF Len(b) # 16 THEN Raised
             ELSE ReadRoutes(data, offset + 16, count - 1,
                      Append(acc, <<unpack_i(SubSeq(b, 1, 4)), unpack_i(SubSeq(b, 5, 8)),
                                    unpack_i(SubSeq(b, 9, 12)), unpack_i(SubSeq(b, 13, 16))>>))

deserialize_routing_update(data) ==
    LET h == Slice(data, 1, 3)
    IN  IF Len(h) # 2 THEN Raised ELSE ReadRoutes(data, 3, unpack_H(h), <<>>)

deserialize_keep_alive(data) ==
    LET b == Slice(data, 0, 5)
    IN  IF Len(b) # 5 THEN Raised ELSE Returned(unpack_i(SubSeq(b, 2, 5)))

RECURSIVE ReadStatus(_, _, _, _)
ReadStatus(data, offset, count, acc) ==
    IF count = 0 THEN Returned(acc)
    ELSE LET b == Slice(data, offset, offset + 5)
         IN  IF Len(b) # 5 THEN Raised
             ELSE ReadStatus(data, offset + 5, count - 1,
                      Append(acc, <<unpack_i(SubSeq(b, 1, 4)), b[5] # 0>>))

deserialize_topology_update(data) ==
    LET i == Slice(data, 1, 5)
        h == Slice(data, 5, 7)
    IN  IF Len(i) # 4 \/ Len(h) # 2 THEN Raised
        ELSE LET r == ReadStatus(data, 7, unpack_H(h), <<>>)
             IN  IF r.ok THEN Returned([id |-> unpack_i(i), nbrs |-> r.val]) ELSE Raised

\* a message of one of the five kinds and its encoding
Message(type, val) == [type |-> type, val |-> val]

Serialize(m) ==
    CASE m.type = BIN_REGISTER_REQUEST  -> serialize_register_request(m.val.id, m.val.port)
      [] m.type = BIN_REGISTER_RESPONSE -> serialize_register_response(m.val)
      [] m.type = BIN_ROUTING_UPDATE    -> serialize_routing_update(m.val)
      [] m.type = BIN_KEEP_ALIVE        -> serialize_keep_alive(m.val)
      [] m.type = BIN_TOPOLOGY_UPDATE   -> serialize_topology_update(m.val.id, m.val.nbrs)

Deserialize(type, data) ==
    CASE type = BIN_REGISTER_REQUEST  -> deserialize_register_request(data)
      [] type = BIN_REGISTER_RESPONSE -> deserialize_register_response(data)
      [] type = BIN_ROUTING_UPDATE    -> deserialize_routing_update(data)
      [] type = BIN_KEEP_ALIVE        -> deserialize_keep_alive(data)
      [] type = BIN_TOPOLOGY_UPDATE   -> deserialize_topology_update(data)

(***************************************************************************)
(* SpecCodec: a message is encoded, possibly cut short or given another    *)
(* type tag on the way, and then either decoded by the decoder of its kind *)
(* or received by the steady-state Controller or by a running switch.      *)
(***************************************************************************)
\* records per message
MaxRecords == 2

Int32Values == {MinInt32, -1, 0, 1, 256, MaxInt32}

Hosts == {<<>>, <<49>>, <<49, 46, 50>>}

NeighborRecords ==
    {[id |-> i, alive |-> a, host |-> h, port |-> p] :
        i \in {-1, 0}, a \in BOOLEAN, h \in Hosts, p \in {0, MaxInt32}}

RouteRecords ==
    {<<0, 0, 0, 0>>, <<0, 1, 1, 1>>, <<1, 2, UNREACHABLE_HOP, UNREACHABLE_DISTANCE>>,
     <<-1, MinInt32, MaxInt32, 256>>, <<65536, 255, 16777216, -256>>}

StatusRecords == {<<i, a>> : i \in {-1, 0, 1, 2}, a \in BOOLEAN}

\* the sequences over S of at most MaxRecords elements
UpTo(S) == UNION {[1 .. k -> S] : k \in 0 .. MaxRecords}

Messages ==
    {Message(BIN_REGISTER_REQUEST, [id |-> i, port |-> p]) :
        i \in Int32Values, p \in Int32Values}
    \cup {Message(BIN_REGISTER_RESPONSE, q) : q \in UpTo(NeighborRecords)}
    \cup {Message(BIN_ROUTING_UPDATE, q) : q \in UpTo(RouteRecords)}
    \cup {Message(BIN_KEEP_ALIVE, i) : i \in Int32Values}
    \cup {Message(BIN_TOPOLOGY_UPDATE, [id |-> i, nbrs |-> q]) :
            i \in {0, 1, MaxInt32}, q \in UpTo(StatusRecords)}

\* type tags no message has
UnknownTags == {0, 6, 255}

\* the port of a sender that is none of the switches
OutsidePort == PortOf(N, 0)

CodecInit ==
    /\ NetStart([s \in Ids(N) |-> None])
    /\ codec = [phase |-> "idle"]
    /\ threads = <<>>

Encode(m) ==
    /\ codec.phase = "idle"
    /\ codec' = [phase |-> "encoded", msg |-> m, data |-> Serialize(m),
                 whole |-> TRUE, tag |-> TRUE]
    /\ UNCHANGED <<ctrlVars, now, switches, net, threads>>

\* the datagram loses its end
Truncate(k) ==
    /\ codec.phase = "encoded" /\ codec.whole /\ codec.tag
    /\ k < Len(codec.data)
    /\ codec' = [codec EXCEPT !.data = SubSeq(codec.data, 1, k), !.whole = FALSE]
    /\ UNCHANGED <<ctrlVars, now, switches, net, threads>>

\* the datagram carries a type tag of no kind
Retag(t) ==
    /\ codec.phase = "encoded" /\ codec.whole /\ codec.tag
    /\ codec' = [codec EXCEPT !.data = <<t>> \o Tail(codec.data), !.tag = FALSE]
    /\ UNCHANGED <<ctrlVars, now, switches, net, threads>>

\* the decoder of the message's kind is applied to the datagram
Decode ==
    /\ codec.phase = "encoded"
    /\ codec' = [codec EXCEPT !.phase = "decoded"]
                    @@ [out |-> Deserialize(codec.msg.type, codec.data)]
    /\ UNCHANGED <<ctrlVars, now, switches, net, threads>>

\* the Controller's receive loop takes the datagram: an exception of the
\* decoders is not caught and ends the process
ControllerReceive ==
    /\ codec.phase = "encoded"
    /\ pc = "steady"
    /\ codec' = [codec EXCEPT !.phase = "at_controller"]
    /\ LET data == codec.data
           tu == deserialize_topology_update(data)
           rr == deserialize_register_request(data)
       IN  IF Len(data) = 0
              \/ (data[1] = BIN_TOPOLOGY_UPDATE /\ ~tu.ok)
              \/ (data[1] = BIN_REGISTER_REQUEST /\ ~rr.ok)
           THEN /\ pc' = "crashed"
                /\ UNCHANGED <<topo, n, liveVars, cache, ioVars, timeVars>>
                /\ UNCHANGED net
           ELSE IF data[1] = BIN_TOPOLOGY_UPDATE
           THEN /\ HandleTopologyUpdate(tu.val.id, tu.val.nbrs, LOCALHOST, OutsidePort)
                /\ net' = net \o (IF pc' = "crashed" THEN <<>> ELSE AllFromController(NewSent))
           ELSE IF data[1] = BIN_REGISTER_REQUEST
           THEN /\ HandleRegisterRequest(rr.val.id, LOCALHOST, rr.val.port)
                /\ net' = net \o AllFromController(NewSent)
           ELSE UNCHANGED <<ctrlVars, now, net>>
    /\ UNCHANGED <<switches, threads>>

\* the receive loop of running switch s takes the datagram
SwitchReceiveBytes(s) ==
    /\ codec.phase = "encoded"
    /\ switches[s].pc = "up"
    /\ codec' = [codec EXCEPT !.phase = "at_switch"]
    /\ LET data == codec.data
           ka == deserialize_keep_alive(data)
           ru == deserialize_routing_update(data)
       IN  IF Len(data) = 0
              \/ (data[1] = BIN_KEEP_ALIVE /\ ~ka.ok)
              \/ (data[1] = BIN_ROUTING_UPDATE /\ ~ru.ok)
           THEN /\ switches' = [switches EXCEPT ![s] =
                                   SwitchDown(switches[s].port, switches[s].log)]
                /\ UNCHANGED net
           ELSE IF data[1] = BIN_KEEP_ALIVE
           THEN LET r == HandleKeepAlive(s, switches[s], ka.val, LOCALHOST, OutsidePort, now)
                IN  /\ switches' = [switches EXCEPT ![s] = r.switch]
                    /\ net' = net \o r.sends
           ELSE IF data[1] = BIN_ROUTING_UPDATE
           THEN /\ switches' = [switches EXCEPT ![s].log =
                                   Append(@, switch_routing_table_update(ru.val))]
                /\ UNCHANGED net
           ELSE UNCHANGED <<switches, net>>
    /\ UNCHANGED <<ctrlVars, now, threads>>

CodecNext ==
    \/ \E m \in Messages : Encode(m)
    \/ \E k \in 0 .. (16 * MaxRecords + 3) : Truncate(k)
    \/ \E t \in UnknownTags : Retag(t)
    \/ Decode
    \/ ControllerReceive
    \/ \E s \in Ids(N) : SwitchReceiveBytes(s)

SpecCodec == CodecInit /\ [][CodecNext]_vars

(***************************************************************************)
(* Reference notions the engine's output is compared with.                 *)
(***************************************************************************)
EngineDone == pc = "engine_done"

Adj(t, u) == Range(TopoGet(t, u))

Neighbors(t, u) == {e[1] : e \in Adj(t, u)}

RECURSIVE ReachFrom(_, _)
ReachFrom(t, S) ==
    LET S2 == S \cup UNION {Neighbors(t, u) : u \in S}
    IN  IF S2 = S THEN S ELSE ReachFrom(t, S2)

\* the switches a path of the topology leads to from s (s itself included)
Reachable(t, s) == ReachFrom(t, {s})

MinOf(S) == CHOOSE x \in S : \A y \in S : x <= y

\* least cost of an edge from u to v
EdgeCost(t, u, v) == MinOf({e[2] : e \in {f \in Adj(t, u) : f[1] = v}})

\* least cost of a path from s to v that ends a path of D with one more edge, or D[v]
OneMoreEdge(t, k, D, v) ==
    LET via == UNION {{D[u] + e[2] : e \in {f \in Adj(t, u) : f[1] = v}} :
                      u \in {w \in Ids(k) : D[w] # Inf}}
        all == via \cup (IF D[v] # Inf THEN {D[v]} ELSE {})
    IN  IF all = {} THEN Inf ELSE MinOf(all)

RECURSIVE Extend(_, _, _, _, _)
Extend(t, k, D, acc, v) ==
    IF v = k THEN acc
    ELSE Extend(t, k, D, [acc EXCEPT ![v] = OneMoreEdge(t, k, D, v)], v + 1)

\* least total cost of the paths of at most h edges from s, per destination
RECURSIVE PathCost(_, _, _, _)
PathCost(t, k, s, h) ==
    IF h = 0 THEN [[v \in Ids(k) |-> Inf] EXCEPT ![s] = 0]
    ELSE LET D == PathCost(t, k, s, h - 1)
         IN  Extend(t, k, D, D, 0)

\* reference shortest-path distances from s (Inf: no path): a shortest path has
\* at most k - 1 edges
RefDist(t, k, s) == PathCost(t, k, s, k - 1)

\* RefDist of every source, source s at index s + 1
RECURSIVE RefDistFrom(_, _, _)
RefDistFrom(t, k, s) ==
    IF s = k THEN <<>> ELSE <<RefDist(t, k, s)>> \o RefDistFrom(t, k, s + 1)

AllRefDist(t, k) == RefDistFrom(t, k, 0)

Route(s, d) == cache.routes_by_switch[s][d + 1]

\* the neighbors of s that start a shortest path from s to d; R is AllRefDist
ShortestStarts(t, R, s, d) ==
    {h \in Neighbors(t, s) :
        /\ R[h + 1][d] # Inf
        /\ EdgeCost(t, s, h) + R[h + 1][d] = R[s + 1][d]}

(***************************************************************************)
(* C3.  Engine output shape: for every switch id s the engine returns      *)
(* exactly n entries, for the destinations 0..n-1 in ascending order; the  *)
(* entry for d = s is (s, s, s, 0); the entry for d is (s, d, -1, 9999)    *)
(* exactly when d is not reachable from s in the effective topology.       *)
(***************************************************************************)
EngineOutputShape ==
    EngineDone =>
        /\ DOMAIN cache.routes_by_switch = Ids(n)
        /\ \A s \in Ids(n) :
            /\ Len(cache.routes_by_switch[s]) = n
            /\ Route(s, s) = <<s, s, s, 0>>
            /\ \A d \in Ids(n) :
                /\ Route(s, d)[1] = s
                /\ Route(s, d)[2] = d
                /\ (Route(s, d) = <<s, d, UNREACHABLE_HOP, UNREACHABLE_DISTANCE>>)
                       <=> (d \notin Reachable(cache.last_topo, s))

\* the engine was applied with a dead switch, an unreachable and a reachable destination
EngineOutputShapeWitness ==
    /\ EngineDone
    /\ \E s, d, u \in Ids(n) :
        /\ switch_alive[s] /\ ~switch_alive[u]
        /\ d # s /\ d \in Reachable(cache.last_topo, s)
        /\ Route(s, u) = <<s, u, UNREACHABLE_HOP, UNREACHABLE_DISTANCE>>
        /\ Route(u, u) = <<u, u, u, 0>>

(***************************************************************************)
(* C4.  Engine distances: for every pair (s, d) with d reachable from s    *)
(* the distance of the entry (s, d) is the least total cost of the paths   *)
(* from s to d.                                                            *)
(***************************************************************************)
EngineDistances ==
    EngineDone =>
        LET R == AllRefDist(cache.last_topo, n)
        IN  \A s \in Ids(n) : \A d \in Reachable(cache.last_topo, s) :
                Route(s, d)[4] = R[s + 1][d]

\* a destination whose shortest path has more edges and less cost than a direct edge
EngineDistancesWitness ==
    /\ EngineDone
    /\ \E s, d \in Ids(n) :
        /\ d \in Neighbors(cache.last_topo, s)
        /\ Route(s, d)[4] < EdgeCost(cache.last_topo, s, d)

(***************************************************************************)
(* C5.  Next hop validity: for d # s reachable from s the next hop h is a  *)
(* neighbor of s and cost(s,h) + distance(h,d) = distance(s,d); the next   *)
(* hop is -1 only for unreachable destinations.                            *)
(***************************************************************************)
NextHopValid ==
    EngineDone =>
        LET R == AllRefDist(cache.last_topo, n)
        IN  \A s, d \in Ids(n) :
                /\ (d # s /\ d \in Reachable(cache.last_topo, s))
                       => Route(s, d)[3] \in ShortestStarts(cache.last_topo, R, s, d)
                /\ (Route(s, d)[3] = UNREACHABLE_HOP)
                       => d \notin Reachable(cache.last_topo, s)

\* a destination reached through a next hop that is not the destination
NextHopValidWitness ==
    /\ EngineDone
    /\ \E s, d \in Ids(n) :
        /\ d # s
        /\ Route(s, d)[3] \notin {d, UNREACHABLE_HOP}
        /\ d \in Neighbors(cache.last_topo, s)


\* the node before d on the path the queue order keeps: the first, in
\* (distance from s, id) order, of the nodes through which d's distance is attained
KeptPred(t, R, s, d) ==
    LET C == {u \in Ids(Len(R)) :
                /\ R[s + 1][u] # Inf
                /\ d \in Neighbors(t, u)
                /\ R[s + 1][u] + EdgeCost(t, u, d) = R[s + 1][d]}
    IN  CHOOSE u \in C : \A w \in C : ~HeapLess(<<R[s + 1][w], w>>, <<R[s + 1][u], u>>)

\* the neighbor of s on the chain of kept predecessors from d back to s
RECURSIVE KeptHop(_, _, _, _)
KeptHop(t, R, s, d) ==
    IF KeptPred(t, R, s, d) = s THEN d ELSE KeptHop(t, R, s, KeptPred(t, R, s, d))

\* the unit-cost ring 0-1-2-3-0
IsUnitRing(t) ==
    /\ DOMAIN t = Ids(4)
    /\ \A u \in Ids(4) : Adj(t, u) = {<<(u + 1) % 4, 1>>, <<(u + 3) % 4, 1>>}

(***************************************************************************)
(* C6 as claimed.  Tie-break: whenever several shortest paths from s to d  *)
(* leave s through different neighbors, the emitted next hop is the        *)
(* lowest-id neighbor among those that start a shortest path.              *)
(***************************************************************************)
TieBreakLowestNextHop ==
    EngineDone =>
        LET R == AllRefDist(cache.last_topo, n)
        IN  \A s, d \in Ids(n) :
                (d # s /\ Cardinality(ShortestStarts(cache.last_topo, R, s, d)) >= 2)
                    => Route(s, d)[3] = MinOf(ShortestStarts(cache.last_topo, R, s, d))

(***************************************************************************)
(* C6 as amended.  Tie-break: the queue order (distance, node id) decides  *)
(* the predecessor, not the next hop: every destination keeps as           *)
(* predecessor the first node, in (distance from s, id) order, through     *)
(* which its shortest distance is attained, and the emitted next hop is    *)
(* the neighbor of s on that chain of predecessors; in the unit-cost ring  *)
(* 0-1-2-3-0 the next hop for 0 to 2 is 1.                                 *)
(***************************************************************************)
TieBreakKeptPredecessor ==
    EngineDone =>
        LET R == AllRefDist(cache.last_topo, n)
        IN  /\ \A s \in Ids(n) : \A d \in Reachable(cache.last_topo, s) \ {s} :
                    Route(s, d)[3] = KeptHop(cache.last_topo, R, s, d)
            /\ IsUnitRing(cache.last_topo) => Route(0, 2)[3] = 1

\* the engine was applied to the unit-cost ring: 0 reaches 2 through 1 or 3
TieBreakWitness ==
    /\ EngineDone
    /\ IsUnitRing(cache.last_topo)
    /\ ShortestStarts(cache.last_topo, AllRefDist(cache.last_topo, n), 0, 2) = {1, 3}
    /\ Route(0, 2) = <<0, 2, 1, 2>>

RECURSIVE SortedEdges(_)
SortedEdges(S) ==
    IF S = {} THEN <<>>
    ELSE LET m == CHOOSE x \in S : \A y \in S : x[1] <= y[1]
         IN  <<m>> \o SortedEdges(S \ {m})

Reverse(q) == [i \in 1 .. Len(q) |-> q[Len(q) + 1 - i]]

\* the topology with every adjacency list in ascending / descending neighbor order
Ascending(t) == [u \in DOMAIN t |-> SortedEdges(Range(t[u]))]

Descending(t) == [u \in DOMAIN t |-> Reverse(SortedEdges(Range(t[u])))]

(***************************************************************************)
(* C7.  Edge-order independence: topologies with the same (neighbor, cost) *)
(* pairs at every node, listed in a different order, get identical routing *)
(* tables: the tables of any listed order are those of the ascending and   *)
(* of the descending order.                                                *)
(***************************************************************************)
EdgeOrderIndependent ==
    EngineDone =>
        /\ cache.routes_by_switch = _compute_routing_tables(Ascending(cache.last_topo), n)
        /\ cache.routes_by_switch = _compute_routing_tables(Descending(cache.last_topo), n)

\* a topology listed in neither order, with two shortest paths to choose from
EdgeOrderWitness ==
    /\ EngineDone
    /\ cache.last_topo # Ascending(cache.last_topo)
    /\ cache.last_topo # Descending(cache.last_topo)
    /\ \E s, d \in Ids(n) :
        /\ d # s
        /\ Cardinality(ShortestStarts(cache.last_topo, AllRefDist(cache.last_topo, n), s, d)) >= 2

(***************************************************************************)
(* Notions the Controller's steps are compared with.                       *)
(***************************************************************************)
\* the flag switch a last reported for b; an entry that is missing counts as true
Reported(nbrs, a, b) ==
    IF a \in DOMAIN nbrs THEN (IF b \in DOMAIN nbrs[a] THEN nbrs[a][b] ELSE TRUE) ELSE TRUE

MarkedAlive(alive, s) == s \in DOMAIN alive /\ alive[s]

\* the edge (a, b) is in the adjacency of a
InTopo(t, a, b) == a \in DOMAIN t /\ \E e \in Range(t[a]) : e[1] = b

Effective == build_topology(topo, switch_alive, switch_neighbors)

OfType(q, type) == SelectSeq(q, LAMBDA m : m.type = type)

OfEvent(q, ev) == SelectSeq(q, LAMBDA l : l.ev = ev)

SteadyStep == pc = "steady" /\ pc' = "steady"

(***************************************************************************)
(* C1.  Effective-topology rule: a declared edge (a, b, cost) is in the    *)
(* adjacency of a that build_topology returns if and only if a and b are   *)
(* marked alive and each one's reported vector marks the other alive (a    *)
(* missing entry counts as true); no edge that is not declared appears,    *)
(* and a switch that is not marked alive has no adjacency entry at all.    *)
(***************************************************************************)
EffectiveTopologyRule ==
    /\ DOMAIN Effective = {a \in DOMAIN topo : MarkedAlive(switch_alive, a)}
    /\ \A a \in DOMAIN topo : \A e \in Range(topo[a]) :
          (a \in DOMAIN Effective /\ e \in Range(Effective[a]))
              <=> /\ MarkedAlive(switch_alive, a)
                  /\ MarkedAlive(switch_alive, e[1])
                  /\ Reported(switch_neighbors, a, e[1])
                  /\ Reported(switch_neighbors, e[1], a)
    /\ \A a \in DOMAIN Effective :
          /\ \A e \in Range(Effective[a]) : e \in Range(topo[a])
          /\ Cardinality(Range(Effective[a])) = Len(Effective[a])

\* b reported a dead, a's entry for b is missing: the edge is out at both ends,
\* and another edge with a missing entry is in
EffectiveTopologyWitness ==
    /\ pc = "steady"
    /\ \E a, b, c \in DOMAIN topo :
        /\ HasEdge(topo, a, b) /\ HasEdge(topo, a, c) /\ b # c
        /\ MarkedAlive(switch_alive, a) /\ MarkedAlive(switch_alive, b)
        /\ switch_neighbors[a] = <<>>
        /\ a \in DOMAIN switch_neighbors[b] /\ ~switch_neighbors[b][a]
        /\ ~InTopo(Effective, a, b) /\ ~InTopo(Effective, b, a)
        /\ InTopo(Effective, a, c)

(***************************************************************************)
(* C2.  Cache consistency: whenever the steady-state Controller is between *)
(* critical sections (after a TOPOLOGY_UPDATE, a REGISTER_REQUEST or a     *)
(* timeout tick was handled), the cache holds the tables the engine        *)
(* computes for the effective topology of the current alive map and        *)
(* reported vectors; and the report that makes a link one-sided (a reports *)
(* b dead, b still reports a alive) takes the edge out of the cached       *)
(* topology and routes in that same step.                                  *)
(***************************************************************************)
CacheHoldsEffective ==
    pc = "steady" =>
        cache = [has_topo |-> TRUE, last_topo |-> Effective,
                 routes_by_switch |-> _compute_routing_tables(Effective, n), n |-> n]

OneSidedReportRemoves ==
    \A a, b \in Ids(N) :
        (/\ SteadyStep
         /\ InTopo(cache.last_topo, a, b)
         /\ Reported(switch_neighbors, a, b) /\ ~Reported(switch_neighbors', a, b)
         /\ Reported(switch_neighbors', b, a))
        => /\ ~InTopo(cache'.last_topo, a, b) /\ ~InTopo(cache'.last_topo, b, a)
           /\ cache'.routes_by_switch[a][b + 1][3] # b
           /\ cache'.routes_by_switch[b][a + 1][3] # a

CacheConsistency == [](CacheHoldsEffective) /\ [][OneSidedReportRemoves]_vars

\* a reported b dead while b's vector says a is alive: the route a to b makes
\* the detour
CacheConsistencyWitness ==
    /\ pc = "steady"
    /\ \E a, b \in DOMAIN topo :
        /\ HasEdge(topo, a, b)
        /\ MarkedAlive(switch_alive, a) /\ MarkedAlive(switch_alive, b)
        /\ b \in DOMAIN switch_neighbors[a] /\ ~switch_neighbors[a][b]
        /\ a \in DOMAIN switch_neighbors[b] /\ switch_neighbors[b][a]
        /\ Route(a, b)[3] \notin {b, UNREACHABLE_HOP}
        /\ Route(a, b)[4] > EdgeCost(topo, a, b)

(***************************************************************************)
(* C8.  No-change suppression: a steady-state step whose recompute finds   *)
(* the effective topology equal to the one of the cached result (a tick    *)
(* that flips nothing recomputes nothing) logs no Routing Update, sends no *)
(* ROUTING_UPDATE broadcast and leaves the cache as it is; the only        *)
(* ROUTING_UPDATE of such a step is the one a REGISTER_REQUEST's handler   *)
(* sends to the requester after the recompute.  So of two consecutive      *)
(* recomputes with the same effective topology the second logs nothing.    *)
(***************************************************************************)
SuppressedStep ==
    (/\ SteadyStep
     /\ cache.has_topo /\ cache.n = n
     /\ build_topology(topo, switch_alive', switch_neighbors') = cache.last_topo)
    => /\ cache' = cache
       /\ OfEvent(NewLog, "Routing Update") = <<>>
       /\ \/ OfType(NewSent, BIN_ROUTING_UPDATE) = <<>>
          \/ /\ Len(NewSent) = 2
             /\ NewLog[1].ev = "Register Request"
             /\ NewSent[1].type = BIN_REGISTER_RESPONSE
             /\ NewSent[2].type = BIN_ROUTING_UPDATE
             /\ NewSent[2].port = sw'[NewLog[1].ids[1]].port

NoChangeSuppression == [][SuppressedStep]_vars

\* a TOPOLOGY_UPDATE was handled after bootstrap and its recompute found the
\* declared topology again: the log has the bootstrap Routing Update only and
\* nothing was sent
NoChangeSuppressionWitness ==
    /\ pc = "steady"
    /\ \E s \in DOMAIN last_heard : last_heard[s] > 0
    /\ Len(OfEvent(log, "Routing Update")) = 1
    /\ Len(sent) = 2 * N
    /\ cache.last_topo = topo

(***************************************************************************)
(* C9.  Dead switches are left out: a Routing Update logged in steady      *)
(* state has the rows of every configured switch marked alive (the self    *)
(* route included) and no row whose source is marked dead, and the         *)
(* broadcast of that step sends each alive switch its table at its         *)
(* registered address and sends no dead switch anything.                   *)
(***************************************************************************)
RowsOf(rows, s) == SelectSeq(rows, LAMBDA r : r[1] = s)

SentTo(q, info) == SelectSeq(q, LAMBDA m : m.host = info.host /\ m.port = info.port)

DeadLeftOutStep ==
    (SteadyStep /\ OfEvent(NewLog, "Routing Update") # <<>>)
    => LET upd == OfEvent(NewLog, "Routing Update")
           cast == OfType(NewSent, BIN_ROUTING_UPDATE)
       IN  /\ Len(upd) = 1
           /\ \A s \in Ids(N) :
                IF MarkedAlive(switch_alive', s)
                THEN /\ RowsOf(upd[1].rows, s) = cache'.routes_by_switch[s]
                     /\ <<s, s, s, 0>> \in Range(upd[1].rows)
                     /\ SentTo(cast, sw'[s]) # <<>>
                     /\ \A i \in 1 .. Len(SentTo(cast, sw'[s])) :
                            SentTo(cast, sw'[s])[i].routes = cache'.routes_by_switch[s]
                ELSE /\ RowsOf(upd[1].rows, s) = <<>>
                     /\ SentTo(NewSent, sw'[s]) = <<>>
           /\ \A i \in 1 .. Len(upd[1].rows) : upd[1].rows[i][1] \in Ids(N)
           /\ \A i \in 1 .. Len(cast) : \E s \in Ids(N) :
                MarkedAlive(switch_alive', s) /\ SentTo(<<cast[i]>>, sw'[s]) # <<>>

DeadLeftOut == [][DeadLeftOutStep]_vars

\* a tick marked a switch dead while another stayed alive; the log ends with
\* the Routing Update of that tick
DeadLeftOutWitness ==
    /\ pc = "steady"
    /\ Len(log) > 2 * N + 1
    /\ log[Len(log)].ev = "Routing Update"
    /\ log[Len(log) - 1].ev = "Switch Dead"
    /\ \E a, d \in Ids(N) :
        /\ MarkedAlive(switch_alive, a) /\ ~MarkedAlive(switch_alive, d)
        /\ RowsOf(log[Len(log)].rows, a) # <<>>
        /\ RowsOf(log[Len(log)].rows, d) = <<>>
        /\ sent[Len(sent)].port = sw[a].port

(***************************************************************************)
(* C10.  Bootstrap barrier: while fewer than N distinct switch ids have    *)
(* registered (a repeated request of one id does not count twice) the      *)
(* Controller has sent nothing; it then sends every registered switch      *)
(* exactly one REGISTER_RESPONSE that lists the switch's declared          *)
(* neighbors, each marked alive and with the host and port that neighbor   *)
(* registered last; only after all the responses it sends the initial      *)
(* routing tables.                                                         *)
(***************************************************************************)
NothingSentBeforeBarrier == Cardinality(DOMAIN sw) < N => sent = <<>>

\* the REGISTER_RESPONSE owed to switch s
ResponseOwed(s) ==
    RegisterResponse(sw[s].host, sw[s].port,
        [i \in 1 .. Len(topo[s]) |->
            [id |-> topo[s][i][1], alive |-> TRUE,
             host |-> sw[topo[s][i][1]].host, port |-> sw[topo[s][i][1]].port]])

BarrierStep ==
    /\ (pc = "register" /\ pc' # "crashed") =>
          /\ sent' = <<>>
          /\ pc' = "respond" <=> DOMAIN sw' = Ids(N)
    /\ pc = "respond" =>
          /\ DOMAIN sw = Ids(N) /\ pc' = "init" /\ sw' = sw
          /\ Len(sent') = N
          /\ \A s \in Ids(N) : \E i \in 1 .. N :
                /\ sent'[i] = ResponseOwed(s)
                /\ \A j \in 1 .. N : SentTo(<<sent'[j]>>, sw[s]) # <<>> => j = i
    /\ pc = "init" =>
          /\ SubSeq(sent', 1, N) = sent
          /\ Len(sent') = 2 * N
          /\ \A s \in Ids(N) : \E i \in (N + 1) .. (2 * N) :
                sent'[i] = RoutingUpdate(sw[s].host, sw[s].port,
                                         _compute_routing_tables(topo, N)[s])

BootstrapBarrier == [](NothingSentBeforeBarrier) /\ [][BarrierStep]_vars

\* a switch registered twice during bootstrap, the second time with another
\* port; the responses went out, its neighbors were told the second port
BootstrapBarrierWitness ==
    /\ pc = "init"
    /\ Len(OfEvent(log, "Register Request")) > N
    /\ \E s \in Ids(N) :
        /\ sw[s].port # PortOf(s, 0)
        /\ \E i \in 1 .. Len(sent) : \E j \in 1 .. Len(sent[i].nbrs) :
              sent[i].nbrs[j].id = s /\ sent[i].nbrs[j].port = sw[s].port

(***************************************************************************)
(* Helpers of the claims about the network of processes.                   *)
(***************************************************************************)
DeclaredNeighbors(s) == {e[1] : e \in Range(TopoGet(DeclaredTopo, s))}

\* switch a runs and holds b as an alive neighbor
MarksAlive(a, b) ==
    /\ switches[a].pc = "up"
    /\ \E i \in 1 .. Len(switches[a].neighbors) :
          switches[a].neighbors[i].id = b /\ switches[a].neighbors[i].alive

\* switch a runs and holds b as a dead neighbor
MarksDead(a, b) ==
    /\ switches[a].pc = "up"
    /\ \E i \in 1 .. Len(switches[a].neighbors) :
          switches[a].neighbors[i].id = b /\ ~switches[a].neighbors[i].alive

Count(q, x) == Cardinality({i \in DOMAIN q : q[i] = x})

\* the position of the last line x of the log q, 0 when there is none
LastIndex(q, x) ==
    IF \E i \in DOMAIN q : q[i] = x
    THEN CHOOSE i \in DOMAIN q : q[i] = x /\ \A j \in DOMAIN q : q[j] = x => j <= i
    ELSE 0

NoFlags == \A a \in Ids(N) : switches[a].failed_neighbor = None

\* the rows of the bootstrap Routing Update
BootRows == log[CHOOSE i \in DOMAIN log : log[i].ev = "Routing Update"
                    /\ \A j \in DOMAIN log : log[j].ev = "Routing Update" => i <= j].rows

\* every one-hop row from or to s of the bootstrap tables is among rows
LinksUsed(rows, s) ==
    \A r \in Range(BootRows) :
        (r[3] = r[2] /\ r[1] # r[2] /\ (r[1] = s \/ r[2] = s)) => r \in Range(rows)

(***************************************************************************)
(* C11.  Recovery: when a switch that the Controller and its running       *)
(* neighbors hold dead is started again (no -f in the run, every datagram  *)
(* delivered, the run lasting at least until the switch's first tick),     *)
(* eventually the Controller has logged Switch Alive for it, each running  *)
(* neighbor has logged Neighbor Alive for it, and the Controller has       *)
(* logged, after the Switch Alive, a Routing Update that holds the one-hop *)
(* rows from and to it again.                                              *)
(***************************************************************************)
ComesBack(s) ==
    /\ switches[s].pc = "wait_response"
    /\ NoFlags
    /\ ~MarkedAlive(switch_alive, s)
    /\ \A a \in DeclaredNeighbors(s) : switches[a].pc = "up" => MarksDead(a, s)
    /\ now + UPDATE_DELAY <= MaxNetTime

Recovered(s) ==
    /\ Count(log, topology_update_switch_alive(s))
          = Count(log, topology_update_switch_dead(s))
    /\ \A a \in DeclaredNeighbors(s) :
          switches[a].pc = "up" =>
              Count(switches[a].log, neighbor_alive(s))
                  = Count(switches[a].log, neighbor_dead(s))
    /\ \E j \in DOMAIN log :
          /\ j > LastIndex(log, topology_update_switch_alive(s))
          /\ log[j].ev = "Routing Update"
          /\ LinksUsed(log[j].rows, s)

Recovery == \A s \in Ids(N) : ComesBack(s) ~> Recovered(s)

\* a switch was held dead by the Controller and by two running neighbors,
\* came back on a new port and is used again
RecoveryWitness ==
    \E s \in Ids(N) :
        /\ switches[s].pc = "up" /\ switches[s].port # PortOf(s, 0)
        /\ topology_update_switch_dead(s) \in Range(log)
        /\ \A a \in DeclaredNeighbors(s) : neighbor_dead(s) \in Range(switches[a].log)
        /\ Cardinality(DeclaredNeighbors(s)) = 2
        /\ Recovered(s)
        /\ \E r \in Range(log[Len(log)].rows) : r[1] # s /\ r[2] # s /\ r[3] = s

(***************************************************************************)
(* C12.  Restart with a new port: when switch s is started again on a new  *)
(* port while its neighbor n runs (no -f in the run, every datagram        *)
(* delivered, the run lasting at least until the first round of s), then   *)
(* eventually and from then on n addresses s at the new port and the link  *)
(* (s, n) is in the effective topology, whether n held s dead at the       *)
(* restart or still held it alive at the old address.                      *)
(***************************************************************************)
AddressHeld(a, b) ==
    switches[a].neighbors[CHOOSE i \in 1 .. Len(switches[a].neighbors) :
                              switches[a].neighbors[i].id = b].port

StartsAgain(s, a) ==
    /\ switches[s].pc = "wait_response"
    /\ switches[a].pc = "up"
    /\ NoFlags
    /\ now + UPDATE_DELAY <= MaxNetTime

LinkBack(s, a) ==
    /\ switches[s].pc = "up" /\ switches[a].pc = "up"
    /\ AddressHeld(a, s) = switches[s].port
    /\ InTopo(Effective, s, a) /\ InTopo(Effective, a, s)

NewPortTolerated ==
    \A s \in Ids(N) : \A a \in DeclaredNeighbors(s) :
        StartsAgain(s, a) ~> [](LinkBack(s, a))

(***************************************************************************)
(* C13.  Re-registration: when the REGISTER_REQUEST of a restarted switch  *)
(* s reaches the steady-state Controller, the Controller logs Register     *)
(* Request s and Register Response s, and s is sent a REGISTER_RESPONSE    *)
(* followed by ROUTING_UPDATEs only; the log of a running switch shows     *)
(* Register Response Received and then Routing Update after its last       *)
(* Register Request Sent.  If the Controller held s dead, the two lines    *)
(* are followed by Switch Alive s and a Routing Update with the rows of s, *)
(* and by nothing else; if it held s alive, no Switch Alive is logged.     *)
(***************************************************************************)
ReRegisters ==
    /\ net # <<>>
    /\ Head(net).port = ControllerPort
    /\ Head(net).type = BIN_REGISTER_REQUEST
    /\ vars' # vars

\* what the Controller sent in this step to the port the request announced
SentToRestarted == SelectSeq(NewSent, LAMBDA d : d.port = Head(net).sport)

ReplyToRestarted ==
    /\ Len(NewLog) >= 2
    /\ NewLog[1] = register_request_received(Head(net).id)
    /\ NewLog[2] = register_response_sent(Head(net).id)
    /\ Len(SentToRestarted) >= 2
    /\ SentToRestarted[1].type = BIN_REGISTER_RESPONSE
    /\ \A i \in 2 .. Len(SentToRestarted) :
          SentToRestarted[i].type = BIN_ROUTING_UPDATE
    /\ NewSent[1] = SentToRestarted[1]

AliveThenRoutes ==
    /\ Len(NewLog) = 4
    /\ NewLog[3] = topology_update_switch_alive(Head(net).id)
    /\ NewLog[4].ev = "Routing Update"
    /\ RowsOf(NewLog[4].rows, Head(net).id) # <<>>

\* the claim as it is worded: every re-registration logs the four entries
ReRegistrationLogsAlive ==
    [][ReRegisters => (ReplyToRestarted /\ AliveThenRoutes)]_vars

ReRegistrationStep ==
    ReRegisters =>
        /\ ReplyToRestarted
        /\ IF ~MarkedAlive(switch_alive, Head(net).id)
           THEN AliveThenRoutes
           ELSE topology_update_switch_alive(Head(net).id) \notin Range(NewLog)

SwitchLogAfterRequest ==
    \A s \in Ids(N) :
        switches[s].pc = "up" =>
            LET k == LastIndex(switches[s].log, register_request_sent)
            IN  /\ k > 0 /\ Len(switches[s].log) >= k + 2
                /\ switches[s].log[k + 1] = register_response_received
                /\ switches[s].log[k + 2].ev = "Routing Update"

ReRegistration == [](SwitchLogAfterRequest) /\ [][ReRegistrationStep]_vars

\* a switch the Controller had logged dead runs again on a new port: the
\* four entries end the Controller's log and the switch logged its tables
ReRegistrationWitness ==
    \E s \in Ids(N) :
        /\ switches[s].pc = "up" /\ switches[s].port # PortOf(s, 0)
        /\ Len(log) > 4
        /\ SubSeq(log, Len(log) - 3, Len(log) - 1)
              = <<register_request_received(s), register_response_sent(s),
                  topology_update_switch_alive(s)>>
        /\ log[Len(log)].ev = "Routing Update"
        /\ topology_update_switch_dead(s) \in Range(log)
        /\ Count(switches[s].log, register_response_received) = 2

(***************************************************************************)
(* C14.  Simulated link failure: a switch s started with -f n never sends  *)
(* a KEEP_ALIVE to n, and a KEEP_ALIVE from n leaves s as it was and makes *)
(* it send nothing; s never logs Neighbor Alive n.  With both running,     *)
(* eventually s holds n dead and n holds s dead, the Controller has logged *)
(* Link Dead s,n, and the last Routing Update it logged is the one         *)
(* computed from the declared topology without the edge (s, n): with       *)
(* switch 0 started with -f 1 it holds the row 0,2:2,5.                    *)
(***************************************************************************)
Flagged(s, a) == switches[s].pc = "up" /\ switches[s].failed_neighbor = a

NoKeepAliveToFailed ==
    \A s \in Ids(N) : \A i \in DOMAIN net :
        (switches[s].failed_neighbor # None
            /\ net[i].type = BIN_KEEP_ALIVE /\ net[i].id = s)
        => net[i].port # AddressHeld(s, switches[s].failed_neighbor)

NoRevivalOfFailed ==
    \A s \in Ids(N) :
        switches[s].failed_neighbor # None
        => neighbor_alive(switches[s].failed_neighbor) \notin Range(switches[s].log)

\* the KEEP_ALIVE at the head of net goes to a switch that names its sender
\* with -f
DiscardStep ==
    \A s \in Ids(N) :
        (/\ net # <<>>
         /\ Head(net).port = switches[s].port
         /\ Head(net).type = BIN_KEEP_ALIVE
         /\ switches[s].failed_neighbor = Head(net).id
         /\ switches[s].pc = "up"
         /\ vars' # vars)
        => switches' = switches /\ net' = Tail(net)

WithoutEdge(t, a, b) ==
    [u \in DOMAIN t |->
        SelectSeq(t[u], LAMBDA e : ~(u = a /\ e[1] = b) /\ ~(u = b /\ e[1] = a))]

RowsWithout(a, b) ==
    FlatFrom(_compute_routing_tables(WithoutEdge(DeclaredTopo, a, b), N),
             FALSE, <<>>, 0, N)

LastRoutingUpdate ==
    log[CHOOSE i \in DOMAIN log : log[i].ev = "Routing Update"
            /\ \A j \in DOMAIN log : log[j].ev = "Routing Update" => j <= i]

LinkFailed(s, a) ==
    /\ MarksDead(s, a) /\ MarksDead(a, s)
    /\ topology_update_link_dead(s, a) \in Range(log)
    /\ LastRoutingUpdate.rows = RowsWithout(s, a)
    /\ (s = 0 /\ a = 1) => <<0, 2, 2, 5>> \in Range(LastRoutingUpdate.rows)

\* a switch was stopped or started again in the run
Stopped == \E a \in Ids(N) : switches[a].pc = "down" \/ switches[a].port # PortOf(a, 0)

SimulatedLinkFailure ==
    /\ [](NoKeepAliveToFailed /\ NoRevivalOfFailed)
    /\ [][DiscardStep]_vars
    /\ \A s \in Ids(N) : \A a \in DeclaredNeighbors(s) :
          (Flagged(s, a) /\ switches[a].pc = "up") ~> (LinkFailed(s, a) \/ Stopped)

\* switch 0 runs with -f 1: it threw away a keep-alive of switch 1 (which had
\* not timed out yet), both ends hold the other dead and the Controller
\* routes 0 to 2 over the direct link of cost 5
SimulatedLinkFailureWitness ==
    /\ Flagged(0, 1) /\ LinkFailed(0, 1) /\ ~Stopped
    /\ topology_update_link_dead(1, 0) \in Range(log)
    /\ <<0, 2, 1, 2>> \in Range(BootRows)
    /\ neighbor_dead(0) \in Range(switches[1].log)
    /\ AddressHeld(1, 0) = switches[0].port

(***************************************************************************)
(* C15.  Detection latency: a round of a switch marks dead, and logs       *)
(* Neighbor Dead for, exactly the neighbors it held alive and has not      *)
(* heard for TIMEOUT or more; a round of the Controller does the same with *)
(* Switch Dead; no other step logs either line.  With a round every        *)
(* UPDATE_DELAY nobody is held alive once the silence has lasted TIMEOUT   *)
(* plus 2 x UPDATE_DELAY, and nobody is declared dead before it has lasted *)
(* TIMEOUT.                                                                *)
(***************************************************************************)
\* the lines the step appends to the log of switch s
NewSwitchLog(s) ==
    SubSeq(switches'[s].log, Len(switches[s].log) + 1, Len(switches'[s].log))

\* the step is a round of switch s
RoundOf(s) ==
    /\ Idle /\ switches[s].pc = "up" /\ now >= switches[s].wake
    /\ switches'[s].pc = "up" /\ switches'[s].wake # switches[s].wake

\* the step is a round of the Controller
RoundOfController == Idle /\ pc = "steady" /\ now >= wake /\ wake' # wake

SwitchDetectionStep ==
    \A s \in Ids(N) :
        /\ RoundOf(s) =>
              \A i \in 1 .. Len(switches[s].neighbors) :
                  LET e == switches[s].neighbors[i]
                      due == e.alive /\ now - e.last_heard >= TIMEOUT
                  IN  /\ switches'[s].neighbors[i].alive = (e.alive /\ ~due)
                      /\ due <=> neighbor_dead(e.id) \in Range(NewSwitchLog(s))
        /\ (switches[s].pc = "up" /\ switches'[s].pc = "up" /\ ~RoundOf(s))
              => \A a \in Ids(N) : neighbor_dead(a) \notin Range(NewSwitchLog(s))

ControllerDetectionStep ==
    /\ RoundOfController =>
          \A s \in DOMAIN last_heard :
              LET due == MarkedAlive(switch_alive, s) /\ now - last_heard[s] >= TIMEOUT
              IN  /\ MarkedAlive(switch_alive', s) = (MarkedAlive(switch_alive, s) /\ ~due)
                  /\ due <=> topology_update_switch_dead(s) \in Range(NewLog)
    /\ ~RoundOfController
          => \A s \in Ids(N) : topology_update_switch_dead(s) \notin Range(NewLog)

SilenceBounded ==
    /\ \A s \in Ids(N) : \A i \in 1 .. Len(switches[s].neighbors) :
          (switches[s].pc = "up" /\ switches[s].neighbors[i].alive)
          => now - switches[s].neighbors[i].last_heard < TIMEOUT + 2 * UPDATE_DELAY
    /\ \A s \in DOMAIN last_heard :
          MarkedAlive(switch_alive, s) => now - last_heard[s] < TIMEOUT + 2 * UPDATE_DELAY

DetectionLatency ==
    /\ [](SilenceBounded)
    /\ [][SwitchDetectionStep /\ ControllerDetectionStep]_vars

\* a stopped switch was declared dead by the Controller and by both neighbors
\* at the rounds at which its silence had lasted TIMEOUT exactly
DetectionLatencyWitness ==
    \E s \in Ids(N) :
        /\ switches[s].pc = "down" /\ now = TIMEOUT
        /\ topology_update_switch_dead(s) \in Range(log)
        /\ Cardinality(DeclaredNeighbors(s)) = 2
        /\ \A a \in DeclaredNeighbors(s) :
              MarksDead(a, s) /\ neighbor_dead(s) \in Range(switches[a].log)

(***************************************************************************)
(* C16.  Failure-free steady state: as long as no switch was stopped and   *)
(* no switch runs with -f (every datagram being delivered), the effective  *)
(* topology is the declared one that the cache holds since bootstrap, no   *)
(* switch has logged Neighbor Dead, and the Controller's log holds exactly *)
(* one Routing Update, the one of bootstrap.                               *)
(***************************************************************************)
FailureFree == NoFlags /\ ~Stopped

FailureFreeSteadyState ==
    FailureFree =>
        /\ Effective = topo
        /\ cache.has_topo /\ cache.last_topo = Effective
        /\ Len(OfEvent(log, "Routing Update")) = 1
        /\ Len(OfEvent(log, "Link Dead")) = 0 /\ Len(OfEvent(log, "Switch Dead")) = 0
        /\ \A s \in Ids(N) : Len(OfEvent(switches[s].log, "Neighbor Dead")) = 0

\* the end of a failure-free run: the TOPOLOGY_UPDATEs of the last round of
\* every switch have reached the Controller, every vector is known
FailureFreeWitness ==
    /\ FailureFree /\ Idle /\ now = MaxNetTime
    /\ \A s \in Ids(N) :
          /\ last_heard[s] = now
          /\ s \in DOMAIN switch_neighbors
          /\ \A a \in DeclaredNeighbors(s) :
                a \in DOMAIN switch_neighbors[s] /\ switch_neighbors[s][a]
    /\ now >= 2 * TIMEOUT

(***************************************************************************)
(* C19.  Codec round-trip: for each of the five message kinds, decoding    *)
(* the encoding of a message with the decoder of its kind raises nothing   *)
(* and returns a value equal to the original: fields at the ends of the    *)
(* 32-bit range and negative ones, the empty record list, the records in   *)
(* their order, empty and NUL-free hosts.                                  *)
(***************************************************************************)
CodecRoundTrip ==
    (codec # <<>> /\ codec.phase = "decoded" /\ codec.whole /\ codec.tag)
    => codec.out.ok /\ codec.out.val = codec.msg.val

\* a REGISTER_RESPONSE of two different records, the first with a negative id,
\* the largest port and the empty host, came back as it was
CodecRoundTripWitness ==
    /\ codec # <<>> /\ codec.phase = "decoded" /\ codec.whole /\ codec.tag
    /\ codec.msg.type = BIN_REGISTER_RESPONSE
    /\ Len(codec.msg.val) = 2
    /\ codec.msg.val[1] = [id |-> -1, alive |-> FALSE, host |-> <<>>, port |-> MaxInt32]
    /\ codec.msg.val[2].host = <<49, 46, 50>> /\ codec.msg.val[2].alive
    /\ codec.out.ok /\ codec.out.val = codec.msg.val
    /\ Len(codec.data) = 3 + 10 + 13

(***************************************************************************)
(* C17.  Malformed datagrams are dropped: when the steady-state Controller *)
(* or a running switch receives a datagram that was cut short (a           *)
(* REGISTER_RESPONSE without its host terminator among them) or carries an *)
(* unknown type tag, it changes nothing of its state, logs and sends       *)
(* nothing, and goes on running.                                           *)
(***************************************************************************)
Malformed == ~codec.whole \/ ~codec.tag

ReceivesMalformed ==
    /\ codec # <<>> /\ codec.phase = "encoded" /\ Malformed
    /\ codec'.phase \in {"at_controller", "at_switch"}

MalformedDropped ==
    [][ReceivesMalformed => UNCHANGED <<ctrlVars, now, switches, net>>]_vars

(***************************************************************************)
(* C18.  Unknown sender: when the steady-state Controller receives a       *)
(* well-formed TOPOLOGY_UPDATE or REGISTER_REQUEST of a switch id it has   *)
(* no registration record for, it goes on running, holds afterwards a      *)
(* last-heard time, an address and a vector for that id, holds the id      *)
(* alive, and logs nothing but the entries of an ordinary registration.    *)
(***************************************************************************)
FromUnknownSender ==
    /\ codec # <<>> /\ codec.phase = "encoded" /\ codec.whole /\ codec.tag
    /\ codec.msg.type \in {BIN_TOPOLOGY_UPDATE, BIN_REGISTER_REQUEST}
    /\ codec.msg.val.id \notin DOMAIN sw
    /\ codec'.phase = "at_controller"

StateKeptFor(id) ==
    /\ pc' = "steady"
    /\ id \in DOMAIN last_heard' /\ last_heard'[id] = now
    /\ id \in DOMAIN sw'
    /\ AliveGet(switch_alive', id, TRUE)
    /\ id \in DOMAIN switch_neighbors'
    /\ \A i \in DOMAIN NewLog :
          NewLog[i] \in {register_request_received(id), register_response_sent(id)}

UnknownSenderTolerated ==
    [][FromUnknownSender => StateKeptFor(codec.msg.val.id)]_vars

(***************************************************************************)
(* SpecLive: the steady-state loop of the Controller alone, from the state *)
(* after a bootstrap in which every switch registered once.  Datagrams of  *)
(* the registered switches arrive between the rounds of the timer thread,  *)
(* which wakes every UPDATE_DELAY seconds.  The switch processes do not    *)
(* move.                                                                   *)
(***************************************************************************)
\* the seconds a run lasts
MaxLiveTime == 12

\* the entries of the Controller log in a run
MaxLiveLog == 13

LiveInit ==
    /\ NetStart([s \in Ids(N) |-> None])
    /\ codec = <<>>
    /\ threads = <<>>

\* the receive loop, a TOPOLOGY_UPDATE of a registered switch from its socket
LiveTopologyUpdate(s, st) ==
    /\ pc = "steady"
    /\ Len(log) < MaxLiveLog
    /\ HandleTopologyUpdate(s, st, LOCALHOST, sw[s].port)
    /\ UNCHANGED netVars

\* the receive loop, a REGISTER_REQUEST of a restarted switch
LiveRegisterRequest(s, sport) ==
    /\ pc = "steady"
    /\ Len(log) < MaxLiveLog
    /\ HandleRegisterRequest(s, LOCALHOST, sport)
    /\ UNCHANGED netVars

\* the timer thread takes the lock when its sleep has ended
LiveTick ==
    /\ pc = "steady"
    /\ now >= wake
    /\ periodic_check
    /\ UNCHANGED netVars

\* time passes until the sleep of periodic_check ends
LiveAdvance ==
    /\ pc = "steady"
    /\ now < wake
    /\ now < MaxLiveTime
    /\ now' = wake
    /\ UNCHANGED <<pc, topo, n, liveVars, cache, ioVars, wake>>
    /\ UNCHANGED netVars

\* the report of a switch that holds every neighbor alive
LiveReports(s) ==
    LET nl == TopoGet(topo, s)
    IN  {[i \in 1 .. Len(nl) |-> <<nl[i][1], TRUE>>]}

LiveNext ==
    \/ \E s \in Ids(N) : \E st \in LiveReports(s) : LiveTopologyUpdate(s, st)
    \/ \E s \in Ids(N) : \E sport \in AnnouncedPorts(s) : LiveRegisterRequest(s, sport)
    \/ LiveTick
    \/ LiveAdvance

SpecLive == LiveInit /\ [][LiveNext]_vars


\* the Switch Dead s and Switch Alive s entries of the Controller log, in order
LivenessEntries(s) ==
    SelectSeq(log, LAMBDA l : l \in {topology_update_switch_dead(s),
                                     topology_update_switch_alive(s)})

\* Switch Dead s and Switch Alive s alternate, Switch Dead s first
Alternates(s) ==
    LET q == LivenessEntries(s)
    IN  \A k \in DOMAIN q :
           q[k] = IF k % 2 = 1 THEN topology_update_switch_dead(s)
                               ELSE topology_update_switch_alive(s)

\* the step is a round of the timer thread
IsTick == pc = "steady" /\ wake' # wake

\* the step handles a TOPOLOGY_UPDATE or a REGISTER_REQUEST of s
HeardFrom(s) ==
    /\ ~IsTick
    /\ s \in DOMAIN last_heard' /\ last_heard'[s] = now
    /\ log' # log \/ sent' # sent \/ sw' # sw \/ last_heard' # last_heard
           \/ switch_neighbors' # switch_neighbors

FlipsToDead(s) == AliveGet(switch_alive, s, FALSE) /\ ~AliveGet(switch_alive', s, FALSE)

FlipsToAlive(s) == ~AliveGet(switch_alive, s, TRUE) /\ AliveGet(switch_alive', s, TRUE)

\* Switch Dead s is logged by a tick that finds s alive and timed out, once
SwitchDeadStep ==
    \A s \in DOMAIN switch_alive' :
       /\ Count(NewLog, topology_update_switch_dead(s)) =
             (IF IsTick /\ FlipsToDead(s) THEN 1 ELSE 0)
       /\ FlipsToDead(s) => IsTick /\ now - last_heard[s] >= TIMEOUT

\* Switch Alive s is logged by a datagram of s that finds s dead, once
SwitchAliveStep ==
    \A s \in DOMAIN switch_alive' :
       /\ Count(NewLog, topology_update_switch_alive(s)) =
             (IF HeardFrom(s) /\ FlipsToAlive(s) THEN 1 ELSE 0)
       /\ FlipsToAlive(s) => HeardFrom(s)

\* a tick runs recompute_and_send exactly when it flipped a switch
TickRecomputes ==
    IsTick =>
       IF \E s \in DOMAIN switch_alive : FlipsToDead(s)
       THEN LET r == recompute_and_send(topo, n, switch_alive', switch_neighbors,
                                        sw, cache)
            IN  /\ cache' = r.cache
                /\ SelectSeq(NewLog, LAMBDA l : l.ev = "Routing Update") = r.log
                /\ NewSent = r.sent
       ELSE cache' = cache /\ NewLog = <<>> /\ NewSent = <<>>

(***************************************************************************)
(* C20.  The Controller's switch state machine: Switch Dead s is logged    *)
(* only by a timeout tick that flips s from alive to dead, with            *)
(* now - last_heard >= TIMEOUT; Switch Alive s is logged only by a         *)
(* TOPOLOGY_UPDATE or REGISTER_REQUEST of s that flips it from dead to     *)
(* alive; the Switch Dead s and Switch Alive s entries of the log          *)
(* alternate, Switch Dead s first; and a tick recomputes routing if and    *)
(* only if it flipped at least one switch.                                 *)
(***************************************************************************)
SwitchStateMachine ==
    /\ [](\A s \in Ids(N) : Alternates(s))
    /\ [][SwitchDeadStep /\ SwitchAliveStep /\ TickRecomputes]_vars

\* switch s died, came back by a TOPOLOGY_UPDATE and died again, and switch t
\* died and came back by a REGISTER_REQUEST
SwitchStateMachineWitness ==
    \E s, t \in Ids(N) :
       /\ LivenessEntries(s) = <<topology_update_switch_dead(s),
                                 topology_update_switch_alive(s),
                                 topology_update_switch_dead(s)>>
       /\ Count(log, register_request_received(s)) = 1
       /\ LivenessEntries(t) = <<topology_update_switch_dead(t),
                                 topology_update_switch_alive(t)>>
       /\ Count(log, register_request_received(t)) = 2

(***************************************************************************)
(* SpecSwitch: the steady state of one Switch process alone, switch Lone   *)
(* of the triangle after its registration, started with or without -f.     *)
(* KEEP_ALIVEs arrive at any second: of its neighbors, from the port the   *)
(* neighbor registered or from the port of a restart, and of ids that are  *)
(* not its neighbors.  The other switches are down, and the Controller     *)
(* does not read its socket.                                               *)
(***************************************************************************)
\* the switch that runs
Lone == 1

\* the seconds a run lasts
MaxSwitchTime == 12

\* Lone's -f argument: none, or one of its declared neighbors
LoneFlags ==
    {f \in FlagChoices : \A s \in Ids(N) : s # Lone => f[s] = None}

\* Lone runs, the other switches do not
LoneInit ==
    /\ SteadyStart
    /\ \E f \in LoneFlags :
          switches = [s \in Ids(N) |->
                        IF s = Lone
                        THEN SwitchUp(s, f[s], 0, cache.routes_by_switch[s])
                        ELSE SwitchDown(PortOf(s, 0), <<>>)]
    /\ codec = <<>>
    /\ threads = <<>>

\* the ids KEEP_ALIVEs carry: the switches and one id no switch has
KeepAliveIds == Ids(N) \cup {N}

\* the ports a KEEP_ALIVE of id comes from
KeepAlivePorts(id) == IF id \in Ids(N) THEN Ports(id) ELSE {PortOf(N, 0)}

\* a KEEP_ALIVE of id, sent from port src, arrives at the socket of Lone
KeepAliveArrives(id, src) ==
    /\ Idle
    /\ switches[Lone].pc = "up"
    /\ net' = <<KeepAlivePacket(id, src, [host |-> LOCALHOST,
                                          port |-> switches[Lone].port])>>
    /\ UNCHANGED <<ctrlVars, now, switches, codec, threads>>

\* a TOPOLOGY_UPDATE of Lone has left for the Controller
Leaves ==
    /\ net # <<>>
    /\ Head(net).port = ControllerPort
    /\ net' = Tail(net)
    /\ UNCHANGED <<ctrlVars, now, switches, codec, threads>>

\* a second passes while the timer thread of Lone sleeps
LoneSecond ==
    /\ Idle
    /\ now < switches[Lone].wake
    /\ now < MaxSwitchTime
    /\ now' = now + 1
    /\ UNCHANGED <<ctrlVars, switches, net, codec, threads>>

SwitchNext ==
    \/ \E id \in KeepAliveIds : \E src \in KeepAlivePorts(id) : KeepAliveArrives(id, src)
    \/ DeliverToSwitch(Lone)
    \/ SwitchTick(Lone)
    \/ Leaves
    \/ DropAtClosedPort
    \/ LoneSecond

SpecSwitch == LoneInit /\ [][SwitchNext]_vars


\* the position of the record of n in the neighbors of switch a, 0 without one
NeighborIndex(a, nb) ==
    IF \E i \in 1 .. Len(switches[a].neighbors) : switches[a].neighbors[i].id = nb
    THEN CHOOSE i \in 1 .. Len(switches[a].neighbors) : switches[a].neighbors[i].id = nb
    ELSE 0

\* this step, the receive loop of the running switch a handles a KEEP_ALIVE
GetsKeepAlive(a) ==
    /\ net # <<>>
    /\ switches[a].pc = "up"
    /\ Head(net).port = switches[a].port
    /\ Head(net).type = BIN_KEEP_ALIVE
    /\ net' # net

\* a had the sender of the KEEP_ALIVE marked alive: last_heard is refreshed,
\* nothing else changes, nothing is sent
AliveRefreshed(a, i) ==
    /\ switches' = [switches EXCEPT ![a].neighbors[i].last_heard = now]
    /\ net' = Tail(net)

\* a had the sender of the KEEP_ALIVE marked dead: the record is alive with the
\* address of the datagram, Neighbor Alive is logged and one TOPOLOGY_UPDATE
\* with the new vector goes to the Controller
DeadRevived(a, i) ==
    LET nb == Head(net).id
        info == [id |-> nb, host |-> LOCALHOST, port |-> Head(net).src,
                 alive |-> TRUE, last_heard |-> now]
        nb1 == [switches[a].neighbors EXCEPT ![i] = info]
    IN  /\ switches' = [switches EXCEPT ![a].neighbors = nb1,
                                        ![a].log = Append(@, neighbor_alive(nb))]
        /\ Len(net') = Len(net)
        /\ SubSeq(net', 1, Len(net) - 1) = Tail(net)
        /\ LET u == net'[Len(net')]
           IN  /\ u.type = BIN_TOPOLOGY_UPDATE /\ u.port = ControllerPort
               /\ u.id = a /\ u.src = switches[a].port
               /\ u.nbrs = [j \in 1 .. Len(nb1) |-> <<nb1[j].id, nb1[j].alive>>]
               /\ \E j \in 1 .. Len(u.nbrs) : u.nbrs[j] = <<nb, TRUE>>

\* the KEEP_ALIVE steps of switch a: the state machine for every declared
\* neighbor (flagged too), or for those a was not started with -f for
KeepAliveStep(a, flagged_too) ==
    GetsKeepAlive(a) =>
       LET nb == Head(net).id
           i == NeighborIndex(a, nb)
       IN  IF i = 0 THEN switches' = switches /\ net' = Tail(net)
           ELSE (flagged_too \/ switches[a].failed_neighbor # nb) =>
                   IF switches[a].neighbors[i].alive THEN AliveRefreshed(a, i)
                   ELSE DeadRevived(a, i)

\* this step is a round of the timer thread of a
RoundStep(a) ==
    /\ switches[a].pc = "up" /\ switches'[a].pc = "up"
    /\ switches'[a].wake # switches[a].wake

\* Neighbor Dead n is logged by a round that flips n from alive to dead, once,
\* and there is no other such flip
NeighborDeadStep(a) ==
    \A i \in 1 .. Len(switches[a].neighbors) :
       (switches'[a].pc = "up" /\ switches[a].pc = "up") =>
          LET nb == switches[a].neighbors[i].id
              flips == switches[a].neighbors[i].alive /\ ~switches'[a].neighbors[i].alive
          IN  /\ flips => RoundStep(a)
              /\ Count(SubSeq(switches'[a].log, Len(switches[a].log) + 1,
                              Len(switches'[a].log)), neighbor_dead(nb))
                    = (IF flips THEN 1 ELSE 0)

\* the log of the current run of switch a: the entries after its last
\* Register Request Sent
RunLog(a) ==
    SubSeq(switches[a].log, LastIndex(switches[a].log, register_request_sent) + 1,
           Len(switches[a].log))

\* in the run of a, Neighbor Dead n and Neighbor Alive n alternate, Dead first
NeighborAlternates(a, nb) ==
    LET q == SelectSeq(RunLog(a), LAMBDA l : l \in {neighbor_dead(nb), neighbor_alive(nb)})
    IN  \A k \in DOMAIN q : q[k] = IF k % 2 = 1 THEN neighbor_dead(nb) ELSE neighbor_alive(nb)

(***************************************************************************)
(* C21 as stated.  Switch neighbor state machine: a KEEP_ALIVE of a        *)
(* declared neighbor n marked alive only refreshes last_heard; of n marked *)
(* dead it flips n to alive, takes host and port from the datagram, logs   *)
(* Neighbor Alive n and sends one TOPOLOGY_UPDATE reporting n alive; of an *)
(* id that is not a declared neighbor it changes nothing; Neighbor Dead n  *)
(* is logged only on an alive-to-dead flip at a tick, and Neighbor Dead n  *)
(* and Neighbor Alive n alternate within one run.                          *)
(***************************************************************************)
NeighborStateMachineAnyNeighbor ==
    /\ [](\A a \in Ids(N) : \A nb \in Ids(N) : NeighborAlternates(a, nb))
    /\ [][\A a \in Ids(N) : KeepAliveStep(a, TRUE) /\ NeighborDeadStep(a)]_vars

(***************************************************************************)
(* C21, amended.  The same state machine for every declared neighbor n     *)
(* other than the one the switch was started with -f for: a KEEP_ALIVE of  *)
(* such an n marked alive only refreshes last_heard (no log, no address    *)
(* change, nothing sent); of such an n marked dead it flips n to alive,    *)
(* takes host and port from the datagram source, logs Neighbor Alive n and *)
(* sends exactly one TOPOLOGY_UPDATE at once reporting n alive; a          *)
(* KEEP_ALIVE of an id that is not a declared neighbor changes nothing;    *)
(* Neighbor Dead n is logged only on an alive-to-dead flip at a tick, so   *)
(* within one run of a switch Neighbor Dead n and Neighbor Alive n         *)
(* alternate.                                                              *)
(***************************************************************************)
NeighborStateMachine ==
    /\ [](\A a \in Ids(N) : \A nb \in Ids(N) : NeighborAlternates(a, nb))
    /\ [][\A a \in Ids(N) : KeepAliveStep(a, FALSE) /\ NeighborDeadStep(a)]_vars

\* Lone, started without -f, logged Neighbor Dead, Neighbor Alive and Neighbor
\* Dead again for a neighbor whose record holds the port of its restart, and
\* has a KEEP_ALIVE of an id that is not its neighbor at its socket
NeighborStateMachineWitness ==
    \E nb \in DeclaredNeighbors(Lone) :
       /\ switches[Lone].failed_neighbor = None
       /\ SelectSeq(RunLog(Lone), LAMBDA l : l \in {neighbor_dead(nb), neighbor_alive(nb)})
             = <<neighbor_dead(nb), neighbor_alive(nb), neighbor_dead(nb)>>
       /\ AddressHeld(Lone, nb) = PortOf(nb, 1)
       /\ net # <<>> /\ Head(net).type = BIN_KEEP_ALIVE
       /\ Head(net).port = switches[Lone].port
       /\ NeighborIndex(Lone, Head(net).id) = 0

(***************************************************************************)
(* SpecLink: the receive loop of the steady-state Controller alone, at one *)
(* instant: TOPOLOGY_UPDATEs with any vector over the declared neighbors   *)
(* of their sender (or none) and REGISTER_REQUESTs of restarted switches   *)
(* arrive one at a time, in any order.  The timer thread does not wake,    *)
(* and no switch process reads what the Controller sends.                  *)
(***************************************************************************)
\* the entries of the Controller log after which no datagram arrives
MaxLinkLog == 13

LinkInit ==
    /\ SteadyStart
    /\ switches = [s \in Ids(N) |-> SwitchDown(PortOf(s, 0), <<>>)]
    /\ codec = <<>>
    /\ threads = <<>>

\* a TOPOLOGY_UPDATE of switch s with the vector st arrives from the socket s
\* registered
TopologyUpdateArrives(s, st) ==
    /\ Idle
    /\ pc = "steady"
    /\ Len(log) < MaxLinkLog
    /\ net' = <<Packet(LOCALHOST, ControllerPort, sw[s].port, BIN_TOPOLOGY_UPDATE, s,
                       None, st, <<>>)>>
    /\ UNCHANGED <<ctrlVars, now, switches, codec, threads>>

\* the REGISTER_REQUEST of a restarted switch s arrives
RegisterRequestArrives(s, sport) ==
    /\ Idle
    /\ pc = "steady"
    /\ Len(log) < MaxLinkLog
    /\ net' = <<RegisterRequestPacket(s, sport)>>
    /\ UNCHANGED <<ctrlVars, now, switches, codec, threads>>

\* what the Controller sent is gone unread: no switch process runs
Unread ==
    /\ net # <<>>
    /\ \A i \in 1 .. Len(net) : net[i].port # ControllerPort
    /\ net' = <<>>
    /\ UNCHANGED <<ctrlVars, now, switches, codec, threads>>

LinkNext ==
    \/ \E s \in Ids(N) : \E st \in Reports(topo, s) : TopologyUpdateArrives(s, st)
    \/ \E s \in Ids(N) : \E sport \in AnnouncedPorts(s) : RegisterRequestArrives(s, sport)
    \/ DeliverTopologyUpdate
    \/ DeliverRegisterRequest
    \/ Unread

SpecLink == LinkInit /\ [][LinkNext]_vars


\* this step, the steady-state Controller handles a TOPOLOGY_UPDATE of s
HandlesTopologyUpdate(s) ==
    /\ net # <<>> /\ pc = "steady"
    /\ Head(net).port = ControllerPort
    /\ Head(net).type = BIN_TOPOLOGY_UPDATE
    /\ Head(net).id = s
    /\ net' # net

\* this step, the steady-state Controller handles a REGISTER_REQUEST of s
HandlesRegisterRequest(s) ==
    /\ net # <<>> /\ pc = "steady"
    /\ Head(net).port = ControllerPort
    /\ Head(net).type = BIN_REGISTER_REQUEST
    /\ Head(net).id = s
    /\ net' # net

\* the TOPOLOGY_UPDATE at the head of net reports nb with the value v
ReportsValue(nb, v) ==
    \E j \in 1 .. Len(Head(net).nbrs) : Head(net).nbrs[j] = <<nb, v>>

\* the value stored for the link of s to nb is FALSE
StoredDead(nbrs, s, nb) == s \in DOMAIN nbrs /\ nb \in DOMAIN nbrs[s] /\ ~nbrs[s][nb]

\* Link Dead s,nb is logged, once, by the TOPOLOGY_UPDATE of s that reports nb
\* dead while no FALSE is stored for it, and by no other step
LinkDeadLogged ==
    \A s \in Ids(N) : \A nb \in Ids(N) :
       Count(NewLog, topology_update_link_dead(s, nb))
          = (IF /\ HandlesTopologyUpdate(s)
                /\ ReportsValue(nb, FALSE)
                /\ ~StoredDead(switch_neighbors, s, nb)
             THEN 1 ELSE 0)

\* the vector of s is replaced by the reported one, the other vectors stay
VectorReplaced ==
    \A s \in Ids(N) :
       HandlesTopologyUpdate(s) =>
          /\ DOMAIN switch_neighbors' = DOMAIN switch_neighbors \cup {s}
          /\ DOMAIN switch_neighbors'[s] = {r[1] : r \in Range(Head(net).nbrs)}
          /\ \A nb \in DOMAIN switch_neighbors'[s] :
                ReportsValue(nb, switch_neighbors'[s][nb])
          /\ \A t \in DOMAIN switch_neighbors \ {s} :
                switch_neighbors'[t] = switch_neighbors[t]

\* a re-registration of s resets its vector to all-true
VectorReset ==
    \A s \in Ids(N) :
       HandlesRegisterRequest(s) =>
          switch_neighbors'[s] = [nb \in DeclaredNeighbors(s) |-> TRUE]

\* a stored FALSE, which keeps Link Dead s,nb from being logged again, goes only
\* by a re-registration of s or by a TOPOLOGY_UPDATE of s that reports nb alive
RearmedByResetOrAlive ==
    \A s \in Ids(N) : \A nb \in Ids(N) :
       (StoredDead(switch_neighbors, s, nb) /\ ~StoredDead(switch_neighbors', s, nb))
          => \/ HandlesRegisterRequest(s)
             \/ HandlesTopologyUpdate(s) /\ ReportsValue(nb, TRUE)

\* ... or by a TOPOLOGY_UPDATE of s that leaves nb out
RearmedByResetAliveOrLeftOut ==
    \A s \in Ids(N) : \A nb \in Ids(N) :
       (StoredDead(switch_neighbors, s, nb) /\ ~StoredDead(switch_neighbors', s, nb))
          => \/ HandlesRegisterRequest(s)
             \/ HandlesTopologyUpdate(s) /\ ~ReportsValue(nb, FALSE)

(***************************************************************************)
(* C22 as stated.  Link Dead logging: handling a TOPOLOGY_UPDATE of s, the *)
(* Controller logs Link Dead s,n exactly for the reported entries n whose  *)
(* value is false and whose stored value was true or absent, then replaces *)
(* the stored vector of s wholesale by the reported one; so repeated       *)
(* reports of the same dead neighbor log Link Dead s,n once, until the     *)
(* vector of s is reset to all-true by a re-registration or n is reported  *)
(* alive again.                                                            *)
(***************************************************************************)
LinkDeadLoggingAsStated ==
    [][LinkDeadLogged /\ VectorReplaced /\ VectorReset /\ RearmedByResetOrAlive]_vars

(***************************************************************************)
(* C22, amended.  The same, with the third way a stored false goes: so     *)
(* repeated reports of the same dead neighbor log Link Dead s,n once,      *)
(* until the vector of s is reset to all-true by a re-registration, or n   *)
(* is reported alive again or is left out of a report of s.                *)
(***************************************************************************)
LinkDeadLogging ==
    [][LinkDeadLogged /\ VectorReplaced /\ VectorReset
          /\ RearmedByResetAliveOrLeftOut]_vars

\* Link Dead s,nb is in the log twice, FALSE is stored for it, and one more
\* TOPOLOGY_UPDATE of s reporting nb dead is at the Controller's socket
LinkDeadLoggingWitness ==
    \E s \in Ids(N) : \E nb \in DeclaredNeighbors(s) :
       /\ Count(log, topology_update_link_dead(s, nb)) = 2
       /\ StoredDead(switch_neighbors, s, nb)
       /\ net # <<>> /\ Head(net).type = BIN_TOPOLOGY_UPDATE
       /\ Head(net).id = s /\ ReportsValue(nb, FALSE)

(***************************************************************************)
(* SpecThreads: one process at the grain of its two threads.  The process  *)
(* is the Controller or the switch Lone; threads holds its lock (free, or  *)
(* the thread that holds it), the statement each thread is at, the         *)
(* datagram the receive loop took (m) and the state it found when it got   *)
(* the lock (base).  Between two steps of one thread the other thread and  *)
(* the clock may take any number of steps.                                 *)
(***************************************************************************)
\* the clock of SpecThreads stops at MaxThreadTime
MaxThreadTime == 6
\* no datagram is taken once the log of the process holds MaxThreadLog entries
MaxThreadLog == 10

\* a lock that any thread gets at once
FreeAlways(lock) == TRUE

\* threading.Lock: `with lock` is entered when no thread holds the lock
Free(lock) == lock = "free"

AtRecvfrom == [at |-> "recvfrom", m |-> None, base |-> None]

Asleep == [at |-> "sleep", changed |-> FALSE]

\* the reports of the TOPOLOGY_UPDATEs taken: every declared neighbor, all
\* alive or all but the first
FullReports(s) ==
    {st \in Reports(topo, s) :
        st # <<>> /\ \A i \in 2 .. Len(st) : st[i][2]}

\* the datagrams the receive loop of the Controller takes
ControllerDatagrams ==
    {Packet(LOCALHOST, ControllerPort, sw[s].port, BIN_TOPOLOGY_UPDATE, s, None, st, <<>>) :
        s \in Ids(N), st \in UNION {FullReports(x) : x \in Ids(N)}}
    \cup {RegisterRequestPacket(s, sport) : s \in Ids(N), sport \in UNION {Ports(x) : x \in Ids(N)}}

\* the state of the Controller a handler finds when it has the lock
Found ==
    [sw |-> sw, switch_alive |-> switch_alive, last_heard |-> last_heard,
     switch_neighbors |-> switch_neighbors, cache |-> cache, log |-> log, sent |-> sent]

ThreadsInit ==
    /\ SteadyStart
    /\ codec = <<>>
    /\ \E f \in LoneFlags : \E proc \in {"controller", "switch"} :
          /\ proc = "controller" => f[Lone] = None
          /\ switches = [s \in Ids(N) |->
                           IF s = Lone /\ proc = "switch"
                           THEN SwitchUp(s, f[s], 0, cache.routes_by_switch[s])
                           ELSE SwitchDown(PortOf(s, 0), <<>>)]
          /\ threads = [proc |-> proc, lock |-> "free", main |-> AtRecvfrom, timer |-> Asleep]

\* the receive loop of the Controller at statement `where`
MainAt(where) == threads.proc = "controller" /\ threads.main.at = where

\* periodic_check at statement `where`
CheckAt(where) == threads.proc = "controller" /\ threads.timer.at = where

\* ctrl.recvfrom returns the datagram m and its decoder is applied
Recvfrom(m) ==
    /\ MainAt("recvfrom")
    /\ Len(log) < MaxThreadLog
    /\ m.type = BIN_TOPOLOGY_UPDATE =>
          m.src = sw[m.id].port /\ m.nbrs \in FullReports(m.id)
    /\ m.type = BIN_REGISTER_REQUEST => m.sport \in AnnouncedPorts(m.id)
    /\ threads' = [threads EXCEPT !.main = [at |-> "lock", m |-> m, base |-> None]]
    /\ UNCHANGED <<ctrlVars, now, switches, net, codec>>

\* `with lock:` of the receive loop
MainLock ==
    /\ MainAt("lock")
    /\ Free(threads.lock)
    /\ threads' = [threads EXCEPT
                      !.lock = "main",
                      !.main.base = Found,
                      !.main.at = IF threads.main.m.type = BIN_TOPOLOGY_UPDATE
                                  THEN "heard" ELSE "record"]
    /\ UNCHANGED <<ctrlVars, now, switches, net, codec>>

\* last_heard[sender_id] = time.time() and the address of the sender
Heard ==
    /\ MainAt("heard")
    /\ last_heard' = Put(last_heard, threads.main.m.id, now)
    /\ sw' = Put(sw, threads.main.m.id, SwitchInfo(LOCALHOST, threads.main.m.src))
    /\ threads' = [threads EXCEPT !.main.at = "alive"]
    /\ UNCHANGED <<pc, topo, n, sw_order, switch_alive, switch_neighbors, cache,
                   ioVars, timeVars, switches, net, codec>>

\* the sender was marked dead: it is alive again
Alive ==
    /\ MainAt("alive")
    /\ LET sender_id == threads.main.m.id
       IN  IF SwitchWasDead(switch_alive, sender_id)
           THEN /\ switch_alive' = Put(switch_alive, sender_id, TRUE)
                /\ log' = Append(log, topology_update_switch_alive(sender_id))
           ELSE UNCHANGED <<switch_alive, log>>
    /\ threads' = [threads EXCEPT !.main.at = "links"]
    /\ UNCHANGED <<pc, topo, n, sw, sw_order, last_heard, switch_neighbors, cache,
                   sent, timeVars, switches, net, codec>>

\* the link deaths are logged and the reported vector is stored
Links ==
    /\ MainAt("links")
    /\ LET sender_id == threads.main.m.id
           nbr_status == threads.main.m.nbrs
           old_nbrs == IF sender_id \in DOMAIN switch_neighbors
                       THEN switch_neighbors[sender_id] ELSE <<>>
       IN  /\ log' = log \o LinkDeadLines(sender_id, old_nbrs, nbr_status, 1)
           /\ switch_neighbors' = Put(switch_neighbors, sender_id, StatusDict(nbr_status))
    /\ threads' = [threads EXCEPT !.main.at = "recompute"]
    /\ UNCHANGED <<pc, topo, n, sw, sw_order, switch_alive, last_heard, cache,
                   sent, timeVars, switches, net, codec>>

\* sw[sid_restart] is overwritten and the REGISTER_RESPONSE is sent and logged
Record ==
    /\ MainAt("record")
    /\ LET sid_restart == threads.main.m.id
           sport_restart == threads.main.m.sport
           sw1 == Put(sw, sid_restart, SwitchInfo(LOCALHOST, sport_restart))
           nbrs == build_neighbor_list(topo, sid_restart, sw1,
                                       DOMAIN switch_alive # {}, switch_alive)
       IN  /\ sw' = sw1
           /\ sw_order' = PutOrder(sw_order, sw, sid_restart)
           /\ sent' = Append(sent, RegisterResponse(LOCALHOST, sport_restart, nbrs))
           /\ log' = log \o <<register_request_received(sid_restart),
                              register_response_sent(sid_restart)>>
    /\ threads' = [threads EXCEPT !.main.at = "revive"]
    /\ UNCHANGED <<pc, topo, n, switch_alive, last_heard, switch_neighbors, cache,
                   timeVars, switches, net, codec>>

\* the restarted switch is marked alive and its vector is reset
Revive ==
    /\ MainAt("revive")
    /\ LET sid_restart == threads.main.m.id
       IN  /\ switch_alive' = Put(switch_alive, sid_restart, TRUE)
           /\ last_heard' = Put(last_heard, sid_restart, now)
           /\ switch_neighbors' =
                 Put(switch_neighbors, sid_restart,
                     [nid \in {e[1] : e \in Range(TopoGet(topo, sid_restart))} |-> TRUE])
           /\ log' = IF SwitchWasDead(switch_alive, sid_restart)
                     THEN Append(log, topology_update_switch_alive(sid_restart))
                     ELSE log
    /\ threads' = [threads EXCEPT !.main.at = "recompute"]
    /\ UNCHANGED <<pc, topo, n, sw, sw_order, cache, sent, timeVars, switches, net, codec>>

\* recompute_and_send, called by the receive loop
MainRecompute ==
    /\ MainAt("recompute")
    /\ LET r == recompute_and_send(topo, n, switch_alive, switch_neighbors, sw, cache)
       IN  /\ cache' = r.cache
           /\ log' = log \o r.log
           /\ sent' = sent \o r.sent
    /\ threads' = [threads EXCEPT
                      !.main.at = IF threads.main.m.type = BIN_TOPOLOGY_UPDATE
                                  THEN "unlock" ELSE "direct"]
    /\ UNCHANGED <<pc, topo, n, liveVars, timeVars, switches, net, codec>>

\* the restarted switch is sent its routes
Direct ==
    /\ MainAt("direct")
    /\ LET sid_restart == threads.main.m.id
           own == RoutesOf(cache, sid_restart)
       IN  sent' = Append(sent, RoutingUpdate(LOCALHOST, threads.main.m.sport, own))
    /\ threads' = [threads EXCEPT !.main.at = "unlock"]
    /\ UNCHANGED <<pc, topo, n, liveVars, cache, log, timeVars, switches, net, codec>>

\* the end of the `with lock:` block of the receive loop
MainUnlock ==
    /\ MainAt("unlock")
    /\ threads' = [threads EXCEPT !.lock = "free", !.main = AtRecvfrom]
    /\ UNCHANGED <<ctrlVars, now, switches, net, codec>>

\* time.sleep(UPDATE_DELAY) of periodic_check returns
CheckWakes ==
    /\ CheckAt("sleep")
    /\ now >= wake
    /\ threads' = [threads EXCEPT !.timer.at = "lock"]
    /\ UNCHANGED <<ctrlVars, now, switches, net, codec>>

\* `with lock:` of periodic_check
CheckLock ==
    /\ CheckAt("lock")
    /\ Free(threads.lock)
    /\ threads' = [threads EXCEPT !.lock = "timer", !.timer.at = "scan"]
    /\ UNCHANGED <<ctrlVars, now, switches, net, codec>>

\* the loop over last_heard: the switches timed out are marked dead and logged
Scan ==
    /\ CheckAt("scan")
    /\ LET alive1 == [sid \in DOMAIN switch_alive |->
                        IF sid \in DOMAIN last_heard /\ TimedOut(sid) THEN FALSE
                        ELSE switch_alive[sid]]
       IN  /\ switch_alive' = alive1
           /\ log' = log \o SwitchDeadLines(sw_order, 1)
           /\ threads' = [threads EXCEPT !.timer.at = "recompute",
                                         !.timer.changed = (alive1 # switch_alive)]
    /\ UNCHANGED <<pc, topo, n, sw, sw_order, last_heard, switch_neighbors, cache,
                   sent, timeVars, switches, net, codec>>

\* if changed: recompute_and_send()
CheckRecompute ==
    /\ CheckAt("recompute")
    /\ LET r == IF threads.timer.changed
                THEN recompute_and_send(topo, n, switch_alive, switch_neighbors, sw, cache)
                ELSE [cache |-> cache, log |-> <<>>, sent |-> <<>>]
       IN  /\ cache' = r.cache
           /\ log' = log \o r.log
           /\ sent' = sent \o r.sent
    /\ threads' = [threads EXCEPT !.timer.at = "unlock"]
    /\ UNCHANGED <<pc, topo, n, liveVars, timeVars, switches, net, codec>>

\* the end of the `with lock:` block of periodic_check; the next sleep begins
CheckUnlock ==
    /\ CheckAt("unlock")
    /\ threads' = [threads EXCEPT !.lock = "free", !.timer = Asleep]
    /\ wake' = now + UPDATE_DELAY
    /\ UNCHANGED <<pc, topo, n, liveVars, cache, ioVars, now, switches, net, codec>>

\* the receive loop of Lone at statement `where`
LoneAt(where) == threads.proc = "switch" /\ threads.main.at = where

\* periodic_tasks of Lone at statement `where`
TasksAt(where) == threads.proc = "switch" /\ threads.timer.at = where

\* the datagrams the receive loop of Lone takes
LoneDatagrams ==
    {KeepAlivePacket(id, src, [host |-> LOCALHOST, port |-> PortOf(Lone, 0)]) :
        id \in KeepAliveIds, src \in UNION {KeepAlivePorts(x) : x \in KeepAliveIds}}
    \cup {FromController(RoutingUpdate(LOCALHOST, PortOf(Lone, 0),
                                       cache.routes_by_switch[Lone]))}

\* sock.recvfrom returns the datagram m and its decoder is applied; a
\* KEEP_ALIVE of the neighbor named with -f is dropped here
LoneRecvfrom(m) ==
    /\ LoneAt("recvfrom")
    /\ m.type = BIN_KEEP_ALIVE => m.src \in KeepAlivePorts(m.id)
    /\ m.type = BIN_ROUTING_UPDATE => Len(switches[Lone].log) < MaxThreadLog
    /\ threads' = IF m.type = BIN_KEEP_ALIVE /\ Skips(switches[Lone].failed_neighbor, m.id)
                  THEN threads
                  ELSE [threads EXCEPT
                           !.main = [at |-> IF m.type = BIN_KEEP_ALIVE THEN "lock"
                                            ELSE "routes",
                                     m |-> m, base |-> None]]
    /\ UNCHANGED <<ctrlVars, now, switches, net, codec>>

\* `with lock:` of the KEEP_ALIVE branch
LoneLock ==
    /\ LoneAt("lock")
    /\ Free(threads.lock)
    /\ threads' = [threads EXCEPT !.lock = "main", !.main.at = "keep_alive"]
    /\ UNCHANGED <<ctrlVars, now, switches, net, codec>>

\* the body of the KEEP_ALIVE branch; net holds what the step handed to sendto
LoneKeepAlive ==
    /\ LoneAt("keep_alive")
    /\ LET r == HandleKeepAlive(Lone, switches[Lone], threads.main.m.id, LOCALHOST,
                                threads.main.m.src, now)
       IN  /\ switches' = [switches EXCEPT ![Lone] = r.switch]
           /\ net' = r.sends
    /\ threads' = [threads EXCEPT !.main.at = "unlock"]
    /\ UNCHANGED <<ctrlVars, now, codec>>

\* the end of the `with lock:` block of the KEEP_ALIVE branch
LoneUnlock ==
    /\ LoneAt("unlock")
    /\ threads' = [threads EXCEPT !.lock = "free", !.main = AtRecvfrom]
    /\ UNCHANGED <<ctrlVars, now, switches, net, codec>>

\* the ROUTING_UPDATE branch: routing_table_update(routes), with no lock taken
LoneRoutes ==
    /\ LoneAt("routes")
    /\ switches' = [switches EXCEPT ![Lone].log =
                       Append(@, switch_routing_table_update(threads.main.m.routes))]
    /\ threads' = [threads EXCEPT !.main = AtRecvfrom]
    /\ UNCHANGED <<ctrlVars, now, net, codec>>

\* time.sleep(UPDATE_DELAY) of periodic_tasks returns
TasksWake ==
    /\ TasksAt("sleep")
    /\ now >= switches[Lone].wake
    /\ threads' = [threads EXCEPT !.timer.at = "lock"]
    /\ UNCHANGED <<ctrlVars, now, switches, net, codec>>

\* `with lock:` of periodic_tasks
TasksLock ==
    /\ TasksAt("lock")
    /\ Free(threads.lock)
    /\ threads' = [threads EXCEPT !.lock = "timer", !.timer.at = "round"]
    /\ UNCHANGED <<ctrlVars, now, switches, net, codec>>

\* the body of periodic_tasks; net holds what the step handed to sendto
TasksRound ==
    /\ TasksAt("round")
    /\ LET r == periodic_tasks(Lone, switches[Lone], now)
       IN  /\ switches' = [switches EXCEPT ![Lone] = [r.switch EXCEPT !.wake = switches[Lone].wake]]
           /\ net' = r.sends
    /\ threads' = [threads EXCEPT !.timer.at = "unlock"]
    /\ UNCHANGED <<ctrlVars, now, codec>>

\* the end of the `with lock:` block of periodic_tasks; the next sleep begins
TasksUnlock ==
    /\ TasksAt("unlock")
    /\ threads' = [threads EXCEPT !.lock = "free", !.timer = Asleep]
    /\ switches' = [switches EXCEPT ![Lone].wake = now + UPDATE_DELAY]
    /\ UNCHANGED <<ctrlVars, now, net, codec>>

\* time passes, wherever the threads are
Passes ==
    /\ now < MaxThreadTime
    /\ now' = now + UPDATE_DELAY
    /\ UNCHANGED <<ctrlVars, switches, net, codec, threads>>

ThreadsNext ==
    \/ \E m \in ControllerDatagrams : Recvfrom(m)
    \/ MainLock
    \/ Heard
    \/ Alive
    \/ Links
    \/ Record
    \/ Revive
    \/ MainRecompute
    \/ Direct
    \/ MainUnlock
    \/ CheckWakes
    \/ CheckLock
    \/ Scan
    \/ CheckRecompute
    \/ CheckUnlock
    \/ \E m \in LoneDatagrams : LoneRecvfrom(m)
    \/ LoneLock
    \/ LoneKeepAlive
    \/ LoneUnlock
    \/ LoneRoutes
    \/ TasksWake
    \/ TasksLock
    \/ TasksRound
    \/ TasksUnlock
    \/ Passes

SpecThreads == ThreadsInit /\ [][ThreadsNext]_vars

\* the receive loop is between recvfrom's return and the end of its branch,
\* past the `with lock:` of the branch if it has one
Handles == threads.main.at \notin {"recvfrom", "lock"}

\* the same, the ROUTING_UPDATE branch of a switch left aside
HandlesLocked == Handles /\ ~LoneAt("routes")

\* the timer loop is inside the body of its tick
Ticks == threads.timer.at \notin {"sleep", "lock"}

\* the Controller has handled a TOPOLOGY_UPDATE up to the end of its branch:
\* what the branch does to the state found when the lock was taken
TopologyUpdateAlone ==
    LET b == threads.main.base
        sender_id == threads.main.m.id
        nbr_status == threads.main.m.nbrs
        was_dead == SwitchWasDead(b.switch_alive, sender_id)
        alive1 == IF was_dead THEN Put(b.switch_alive, sender_id, TRUE) ELSE b.switch_alive
        sw1 == Put(b.sw, sender_id, SwitchInfo(LOCALHOST, threads.main.m.src))
        nbrs1 == Put(b.switch_neighbors, sender_id, StatusDict(nbr_status))
        r == recompute_and_send(topo, n, alive1, nbrs1, sw1, b.cache)
    IN  /\ log = b.log
                 \o (IF was_dead THEN <<topology_update_switch_alive(sender_id)>> ELSE <<>>)
                 \o LinkDeadLines(sender_id, b.switch_neighbors[sender_id], nbr_status, 1)
                 \o r.log
        /\ sent = b.sent \o r.sent
        /\ cache = r.cache
        /\ switch_alive = alive1
        /\ switch_neighbors = nbrs1
        /\ sw = sw1
        /\ \E t \in 0 .. now : last_heard = Put(b.last_heard, sender_id, t)

TopologyUpdateDone ==
    MainAt("unlock") /\ threads.main.m.type = BIN_TOPOLOGY_UPDATE

\* C23 as stated: in each process the handling of one datagram and the handling
\* of one tick never overlap, and when the Controller ends the handling of a
\* TOPOLOGY_UPDATE its log holds, after the entries it found, the Switch Alive,
\* Link Dead and Routing Update entries of that datagram and nothing else, the
\* Routing Update being computed from the state found plus the datagram's changes.
AtomicHandlingOfEveryDatagram ==
    /\ ~(Handles /\ Ticks)
    /\ TopologyUpdateDone => TopologyUpdateAlone

\* C23, amended: in each process the handling of one datagram, a switch's
\* logging of a ROUTING_UPDATE excepted, and the handling of one tick never
\* overlap; and when the Controller ends the handling of a TOPOLOGY_UPDATE its
\* log holds, after the entries it found, the Switch Alive, Link Dead and
\* Routing Update entries of that datagram and nothing else, the Routing Update
\* being computed from the state found plus the datagram's changes.
AtomicHandling ==
    /\ ~(HandlesLocked /\ Ticks)
    /\ TopologyUpdateDone => TopologyUpdateAlone

\* the Controller ends the handling of a TOPOLOGY_UPDATE that wrote Link Dead
\* and Routing Update while periodic_check, its sleep over, waits for the lock
AtomicHandlingWitness ==
    /\ TopologyUpdateDone
    /\ threads.timer.at = "lock"
    /\ Len(log) = Len(threads.main.base.log) + 2
    /\ log[Len(log) - 1].ev = "Link Dead"
    /\ log[Len(log)].ev = "Routing Update"

\* the declared neighbors of s, all marked alive
AllTrue(s) == [nid \in {e[1] : e \in Range(TopoGet(topo, s))} |-> TRUE]

\* the step handles a REGISTER_REQUEST of s as the Controller does: the record
\* of s, its vector, its alive flag and last_heard, recompute-and-broadcast
\* on the state so changed, and the table of s sent last
ReRegistered(s) ==
    LET sport == Head(net).sport
        u == update(cache, build_topology(topo, switch_alive', switch_neighbors'), n)
    IN  /\ sw' = Put(sw, s, SwitchInfo(LOCALHOST, sport))
        /\ switch_neighbors' = Put(switch_neighbors, s, AllTrue(s))
        /\ switch_alive' = Put(switch_alive, s, TRUE)
        /\ last_heard' = Put(last_heard, s, now)
        /\ cache' = u.cache
        /\ NewLog = <<register_request_received(s), register_response_sent(s)>>
                       \o (IF switch_alive[s] THEN <<>>
                           ELSE <<topology_update_switch_alive(s)>>)
                       \o (IF u.changed
                           THEN <<routing_table_update(flat_routes(cache', TRUE, switch_alive'))>>
                           ELSE <<>>)
        /\ Len(NewSent) = 2 + (IF u.changed
                               THEN Cardinality({t \in Ids(N) : switch_alive'[t]}) ELSE 0)
        /\ NewSent[1].type = BIN_REGISTER_RESPONSE
        /\ NewSent[1].port = sport
        /\ \A i \in 2 .. (Len(NewSent) - 1) : NewSent[i].type = BIN_ROUTING_UPDATE
        /\ NewSent[Len(NewSent)] = RoutingUpdate(LOCALHOST, sport, cache'.routes_by_switch[s])

\* every datagram of the step goes to the port the REGISTER_REQUEST announced
AllToAnnouncedPort ==
    \A i \in 1 .. Len(NewSent) : NewSent[i].port = Head(net).sport

\* every datagram of the step goes to the port the REGISTER_REQUEST announced
\* or, a ROUTING_UPDATE of the broadcast, to the socket of another alive switch
AllToAnnouncedPortOrOthers(s) ==
    \A i \in 1 .. Len(NewSent) :
       \/ NewSent[i].port = Head(net).sport
       \/ /\ NewSent[i].type = BIN_ROUTING_UPDATE
          /\ \E t \in Ids(N) \ {s} : switch_alive[t] /\ NewSent[i].port = sw[t].port

\* C24 as stated: a steady-state REGISTER_REQUEST of s overwrites the record of
\* s, resets its vector to all-true, marks it alive, refreshes last_heard, runs
\* recompute-and-broadcast and sends s its table as just recomputed last,
\* changed or not; and every datagram of the step goes to the announced port.
TableAllToAnnouncedPort ==
    [][\A s \in Ids(N) :
          HandlesRegisterRequest(s) => ReRegistered(s) /\ AllToAnnouncedPort]_vars

\* C24, amended: a steady-state REGISTER_REQUEST of s overwrites the record of
\* s, resets its vector to all-true, marks it alive, refreshes last_heard, runs
\* recompute-and-broadcast and sends s its table as just recomputed last,
\* changed or not; and every datagram of the step goes to the announced port,
\* but for the broadcast's ROUTING_UPDATEs to the other alive switches.
TableToAnnouncedPort ==
    [][\A s \in Ids(N) :
          HandlesRegisterRequest(s) => ReRegistered(s) /\ AllToAnnouncedPortOrOthers(s)]_vars

\* a switch the Controller had marked dead has re-registered from a new port:
\* the log ends with its Switch Alive and a Routing Update, the last datagram
\* sent is its table to the new port, sent there by the broadcast as well
TableToAnnouncedPortWitness ==
    \E s \in Ids(N) :
       /\ pc = "steady"
       /\ Len(log) >= 4
       /\ log[Len(log) - 3] = register_request_received(s)
       /\ log[Len(log) - 1] = topology_update_switch_alive(s)
       /\ log[Len(log)].ev = "Routing Update"
       /\ sw[s].port = PortOf(s, 1)
       /\ sent[Len(sent)] = RoutingUpdate(LOCALHOST, PortOf(s, 1), cache.routes_by_switch[s])
       /\ \E i \in 1 .. (Len(sent) - 1) : sent[i] = sent[Len(sent)]

\* a re-registration that left the cache as it was: the switch was alive and
\* nothing was logged after its Register Response, yet its table was sent
TableUnchangedWitness ==
    \E s \in Ids(N) :
       /\ pc = "steady"
       /\ log[Len(log)] = register_response_sent(s)
       /\ sw[s].port = PortOf(s, 1)
       /\ sent[Len(sent)] = RoutingUpdate(LOCALHOST, PortOf(s, 1), cache.routes_by_switch[s])
       /\ sent[Len(sent) - 1].type = BIN_REGISTER_RESPONSE

\* two running neighbors each mark the other dead
MutualDeath(a, b) == a # b /\ MarksDead(a, b) /\ MarksDead(b, a)

\* a KEEP_ALIVE of a is in flight to the address a holds for b
KeepAliveInFlight(a, b) ==
    \E i \in 1 .. Len(net) :
       /\ net[i].type = BIN_KEEP_ALIVE
       /\ net[i].id = a
       /\ net[i].port = switches[a].neighbors[NeighborIndex(a, b)].port

\* the Controller has taken every TOPOLOGY_UPDATE sent
ReportsTaken == \A i \in 1 .. Len(net) : net[i].type # BIN_TOPOLOGY_UPDATE

\* the link of a and b is in the effective topology
LinkIn(a, b) ==
    \/ a \in DOMAIN Effective /\ HasEdge(Effective, a, b)
    \/ b \in DOMAIN Effective /\ HasEdge(Effective, b, a)

\* the process of switch s is the same before and after the step
KeepsRunning(s) ==
    /\ switches[s].pc = "up" /\ switches'[s].pc = "up"
    /\ switches'[s].port = switches[s].port

\* C25: once two running neighbors a and b each mark the other dead, no
\* KEEP_ALIVE of one is in flight to the other, the link is out of the
\* effective topology once their reports are taken, and both flags are still
\* dead after every step in which both processes keep running.
MutualDeathPermanent ==
    /\ [](\A a, b \in Ids(N) :
             MutualDeath(a, b) =>
                /\ ~KeepAliveInFlight(a, b)
                /\ ReportsTaken /\ pc = "steady" => ~LinkIn(a, b))
    /\ [][\A a, b \in Ids(N) :
             MutualDeath(a, b) /\ KeepsRunning(a) /\ KeepsRunning(b) => MutualDeath(a, b)']_vars

\* switch a has had a round after the one in which it marked b dead
RoundSince(a, b) ==
    /\ switches[a].wake > now
    /\ now - switches[a].neighbors[NeighborIndex(a, b)].last_heard >= TIMEOUT + 2 * UPDATE_DELAY

\* two running neighbors mark each other dead: a was started with -f b; each
\* has had a round since, nothing is in flight and the Controller holds the
\* link out of the effective topology
MutualDeathPermanentWitness ==
    \E a, b \in Ids(N) :
       /\ MutualDeath(a, b)
       /\ switches[a].failed_neighbor = b
       /\ RoundSince(a, b) /\ RoundSince(b, a)
       /\ Idle
       /\ pc = "steady" /\ ~LinkIn(a, b)

\* the same with both switches started without -f, after one of them was
\* stopped and started again
MutualDeathAfterRestartWitness ==
    \E a, b \in Ids(N) :
       /\ MutualDeath(a, b)
       /\ switches[a].failed_neighbor = None /\ switches[b].failed_neighbor = None
       /\ Idle
       /\ pc = "steady" /\ ~LinkIn(a, b)

\* no row of the table rows leads to or through the switch d: d is no next
\* hop, and a row to d from another switch is the unreachable entry
Avoids(rows, d) ==
    \A i \in 1 .. Len(rows) :
       /\ rows[i][3] # d
       /\ rows[i][2] = d /\ rows[i][1] # d =>
             rows[i] = <<rows[i][1], d, UNREACHABLE_HOP, UNREACHABLE_DISTANCE>>

\* the Routing Updates a step logs and the ROUTING_UPDATEs it sends avoid
\* every switch marked dead when the step ends
NoRouteThroughDeadStep ==
    SteadyStep =>
       LET upd == OfEvent(NewLog, "Routing Update")
           cast == OfType(NewSent, BIN_ROUTING_UPDATE)
       IN  \A d \in Ids(N) :
              ~MarkedAlive(switch_alive', d) =>
                 /\ \A i \in 1 .. Len(upd) : Avoids(upd[i].rows, d)
                 /\ \A i \in 1 .. Len(cast) : Avoids(cast[i].routes, d)

\* the config file of the line 0-1-2-3 with unit costs
LineTopo == ParseConfig(4, << <<0, 1, 1>>, <<1, 2, 1>>, <<2, 3, 1>> >>)

\* the rows recompute_and_send logs on the line once switch 2 is marked dead
LineRows ==
    LET alive == [s \in Ids(4) |-> s # 2]
        r == recompute_and_send(LineTopo, 4, alive, SeedNeighbors(LineTopo, Ids(4)),
                                <<>>, update(EmptyCache, LineTopo, 4).cache)
    IN  r.log[1].rows

\* C26: every Routing Update the Controller logs and every ROUTING_UPDATE it
\* sends in steady state has, for every switch d marked dead, no row with d as
\* next hop and only unreachable rows (s, d, -1, 9999) from the other switches
\* to d; on the line 0-1-2-3 with switch 2 marked dead the rows 0,3 and 3,0 are
\* the unreachable entries.
NoRouteThroughDead ==
    /\ [][NoRouteThroughDeadStep]_vars
    /\ [](/\ RowsOf(LineRows, 0)[4] = <<0, 3, UNREACHABLE_HOP, UNREACHABLE_DISTANCE>>
          /\ RowsOf(LineRows, 3)[1] = <<3, 0, UNREACHABLE_HOP, UNREACHABLE_DISTANCE>>
          /\ Avoids(LineRows, 2))

\* switch 1 of the triangle is marked dead and the last Routing Update, logged
\* and sent to switch 0, leads 0 to 2 over their own link of cost 5 and has no
\* route to 1
NoRouteThroughDeadWitness ==
    /\ pc = "steady"
    /\ ~MarkedAlive(switch_alive, 1) /\ MarkedAlive(switch_alive, 0)
    /\ log[Len(log)].ev = "Routing Update"
    /\ <<0, 2, 2, 5>> \in Range(log[Len(log)].rows)
    /\ <<0, 1, UNREACHABLE_HOP, UNREACHABLE_DISTANCE>> \in Range(log[Len(log)].rows)
    /\ \E i \in 1 .. Len(sent) :
          /\ sent[i].type = BIN_ROUTING_UPDATE
          /\ <<0, 2, 2, 5>> \in Range(sent[i].routes)
          /\ <<0, 1, UNREACHABLE_HOP, UNREACHABLE_DISTANCE>> \in Range(sent[i].routes)

=============================================================================
